---- MODULE Spec2Model ----
(***************************************************************************)
(* The imposter party game of teddyhabtamu/Amharic-Imposter: the Telegraf  *)
(* chat bot (src/unnamed/part_000, one Session per chat) and the React web *)
(* client (src/bot/bot.js, lines 78-833, one Session per page).            *)
(*                                                                         *)
(* Text is modelled as sequences of one-character strings so that trim,    *)
(* split and Number are computed, not assumed.  A JavaScript number is a   *)
(* record [nan, half]: half counts halves, so 3 is half = 6 and 3.5 is     *)
(* half = 7; only fractions .0 and .5 are offered as inputs.               *)
(***************************************************************************)
EXTENDS Integers, Sequences, FiniteSets, TLC

VARIABLES frontend, sessions, app, loop, suspended

vars == <<frontend, sessions, app, loop, suspended>>

(***************************************************************************)
(* Program constants.                                                      *)
(***************************************************************************)
MIN_PLAYERS == 3
MAX_PLAYERS == 12
MIN_IMPOSTERS == 1
WEB_DEFAULT_PLAYERS == 5

(***************************************************************************)
(* Bounds of the model.                                                    *)
(***************************************************************************)
MaxCount == 3

(***************************************************************************)
(* Strings.                                                                *)
(***************************************************************************)
Digits == <<"0", "1", "2", "3", "4", "5", "6", "7", "8", "9">>

IsDigit(ch) == \E d \in 1..10 : Digits[d] = ch

DigitVal(ch) == (CHOOSE d \in 1..10 : Digits[d] = ch) - 1

IsSpace(ch) == ch \in {" ", "\n"}

AllDigits(str) == \A i \in 1..Len(str) : IsDigit(str[i])

RECURSIVE DigitsValue(_)
DigitsValue(str) ==
  IF str = <<>> THEN 0
  ELSE 10 * DigitsValue(SubSeq(str, 1, Len(str) - 1)) + DigitVal(str[Len(str)])

RECURSIVE Numeral(_)
Numeral(n) ==
  IF n < 0 THEN <<"-">> \o Numeral(0 - n)
  ELSE IF n < 10 THEN <<Digits[n + 1]>>
  ELSE Numeral(n \div 10) \o <<Digits[(n % 10) + 1]>>

RECURSIVE TrimStart(_)
TrimStart(str) ==
  IF str # <<>> /\ IsSpace(Head(str)) THEN TrimStart(Tail(str)) ELSE str

RECURSIVE TrimEnd(_)
TrimEnd(str) ==
  IF str # <<>> /\ IsSpace(str[Len(str)])
  THEN TrimEnd(SubSeq(str, 1, Len(str) - 1))
  ELSE str

Trim(str) == TrimEnd(TrimStart(str))

StartsWith(str, prefix) ==
  /\ Len(prefix) <= Len(str)
  /\ SubSeq(str, 1, Len(prefix)) = prefix

RECURSIVE Split(_, _)
Split(str, seps) ==
  IF \A i \in 1..Len(str) : str[i] \notin seps THEN <<str>>
  ELSE LET at == CHOOSE i \in 1..Len(str) :
                   /\ str[i] \in seps
                   /\ \A j \in 1..(i - 1) : str[j] \notin seps
       IN  <<SubSeq(str, 1, at - 1)>> \o Split(SubSeq(str, at + 1, Len(str)), seps)

SelectNonEmpty(strs) == SelectSeq(strs, LAMBDA name : Len(name) > 0)

MapTrim(strs) == [i \in 1..Len(strs) |-> Trim(strs[i])]

(***************************************************************************)
(* JavaScript numbers, in halves.                                          *)
(***************************************************************************)
NaN == [nan |-> TRUE, half |-> 0]

Num(n) == [nan |-> FALSE, half |-> 2 * n]

FractionHalves(str) ==
  CASE \A i \in 1..Len(str) : str[i] = "0" -> 0
    [] /\ str # <<>>
       /\ str[1] = "5"
       /\ \A i \in 2..Len(str) : str[i] = "0" -> 1

UnsignedNumber(str) ==
  LET parts == Split(str, {"."})
  IN  IF Len(parts) = 1
      THEN IF str # <<>> /\ AllDigits(str)
           THEN [nan |-> FALSE, half |-> 2 * DigitsValue(str)]
           ELSE NaN
      ELSE IF /\ Len(parts) = 2
              /\ AllDigits(parts[1])
              /\ AllDigits(parts[2])
              /\ Len(parts[1]) + Len(parts[2]) > 0
           THEN [nan |-> FALSE,
                 half |-> 2 * DigitsValue(parts[1]) + FractionHalves(parts[2])]
           ELSE NaN

Number(str) ==
  LET t == Trim(str)
  IN  IF t = <<>> THEN Num(0)
      ELSE IF t[1] = "-"
           THEN LET u == UnsignedNumber(Tail(t))
                IN  IF u.nan THEN NaN ELSE [nan |-> FALSE, half |-> 0 - u.half]
           ELSE IF t[1] = "+" THEN UnsignedNumber(Tail(t))
           ELSE UnsignedNumber(t)

IsInteger(x) == ~x.nan /\ x.half % 2 = 0

IsNaN(x) == x.nan

Less(x, y) == ~x.nan /\ ~y.nan /\ x.half < y.half

Greater(x, y) == Less(y, x)

GreaterEq(x, y) == ~x.nan /\ ~y.nan /\ x.half >= y.half

Max(a, b) == IF a >= b THEN a ELSE b

Min(a, b) == IF a <= b THEN a ELSE b

IntOf(x) == x.half \div 2

(***************************************************************************)
(* Helpers shared by the bot and the web client.                           *)
(***************************************************************************)
createDefaultName(index) == <<"P", " ">> \o Numeral(index + 1)

RECURSIVE PadNames(_, _, _)
PadNames(next, i, countHalf) ==
  IF 2 * i < countHalf
  THEN PadNames(Append(next, createDefaultName(i)), i + 1, countHalf)
  ELSE next

Slice(list, countHalf) ==
  SubSeq(list, 1, Min(Len(list), Max(0, countHalf \div 2)))

ensureNameListUncut(countHalf, current) ==
  IF 2 * Len(current) >= countHalf THEN current
  ELSE PadNames(current, Len(current), countHalf)

ensureNameList(countHalf, current) ==
  LET trimmed == Slice(current, countHalf)
  IN  IF 2 * Len(trimmed) = countHalf THEN trimmed
      ELSE PadNames(trimmed, Len(trimmed), countHalf)

getMaxImpostersAll(countHalf) ==
  Max(2 * MIN_IMPOSTERS, Max(0, countHalf))

getMaxImposters(countHalf) ==
  Max(2 * MIN_IMPOSTERS, Max(0, countHalf - 2))

(***************************************************************************)
(* The word list lives in words.js, which is not part of the sources; only *)
(* pickRandomWord() -> one word of a non-empty list is used.               *)
(***************************************************************************)
WORDS == {<<"w", "1">>, <<"w", "2">>}

Null == <<"null">>

Fill(length, value) == [i \in 1..length |-> value]

(***************************************************************************)
(* Chat bot: Session, Session Store.                                       *)
(* playerCount and imposterCount hold JavaScript numbers (in halves); the  *)
(* cursors and the votes are array indices (0-based).                      *)
(***************************************************************************)
Chats == {"A"}

resetSession ==
  [stage |-> "askPlayerCount",
   playerCount |-> Num(MIN_PLAYERS),
   playerNames |-> ensureNameList(2 * MIN_PLAYERS, <<>>),
   imposterCount |-> Num(MIN_IMPOSTERS),
   assignments |-> <<>>,
   selectedWord |-> <<>>,
   currentRevealIndex |-> 0,
   wordRevealed |-> FALSE,
   currentVoterIndex |-> 0,
   votes |-> <<>>]

Has(map, chatId) == chatId \in DOMAIN map

PutAll(map, chatId, session) ==
  [c \in DOMAIN map \cup {chatId} |-> session]

Put(map, chatId, session) ==
  [c \in DOMAIN map \cup {chatId} |-> IF c = chatId THEN session ELSE map[c]]

getSessionOverwriting(map, chatId) == Put(map, chatId, resetSession)

getSession(map, chatId) ==
  IF Has(map, chatId) THEN map ELSE Put(map, chatId, resetSession)

Idle == [running |-> FALSE, owner |-> "none", imposterIndices |-> {}]

Drawing(owner) == [running |-> TRUE, owner |-> owner, imposterIndices |-> {}]

(***************************************************************************)
(* bot.on('text'): the Setup Controller.  OnText is the handler up to the  *)
(* rejection-sampling loop: the Session it leaves, the reply it sends and  *)
(* whether it goes on to draw the imposters.                               *)
(***************************************************************************)
ValidPlayerCountFromTwo(count) ==
  ~(\/ ~IsInteger(count)
    \/ Less(count, Num(MIN_PLAYERS - 1))
    \/ Greater(count, Num(MAX_PLAYERS)))

ValidPlayerCount(count) ==
  ~(\/ ~IsInteger(count)
    \/ Less(count, Num(MIN_PLAYERS))
    \/ Greater(count, Num(MAX_PLAYERS)))

ValidImposterCount(imposters, maxImposters) ==
  ~(\/ ~IsInteger(imposters)
    \/ Less(imposters, Num(MIN_IMPOSTERS))
    \/ Greater(imposters, [nan |-> FALSE, half |-> maxImposters]))

ParseNamesKeepingBlanks(message) ==
  MapTrim(Split(message, {"\n", ","}))

ParseNames(message) ==
  SelectNonEmpty(MapTrim(Split(message, {"\n", ","})))

AwaitsImposterCountOrLater(session) ==
  session.stage \notin {"askPlayerCount", "collectNames"}

AwaitsImposterCount(session) == session.stage = "askImposterCount"

OnText(session, text) ==
  LET message == Trim(text)
  IN  IF StartsWith(message, <<"/">>)
      THEN [session |-> session, reply |-> "none", draw |-> FALSE]
      ELSE IF session.stage = "askPlayerCount"
      THEN LET count == Number(message)
           IN  IF ~ValidPlayerCount(count)
               THEN [session |-> session, reply |-> "badPlayerCount", draw |-> FALSE]
               ELSE [session |->
                       [session EXCEPT
                          !.playerCount = count,
                          !.playerNames = ensureNameList(count.half, session.playerNames),
                          !.stage = "collectNames"],
                     reply |-> "askNames",
                     draw |-> FALSE]
      ELSE IF session.stage = "collectNames"
      THEN LET rawNames == ParseNames(message)
           IN  [session |->
                  [session EXCEPT
                     !.playerNames =
                        ensureNameList(session.playerCount.half,
                                       IF Len(rawNames) > 0 THEN rawNames
                                       ELSE session.playerNames),
                     !.stage = "askImposterCount"],
                reply |-> "askImposterCount",
                draw |-> FALSE]
      ELSE IF AwaitsImposterCount(session)
      THEN LET imposters == Number(message)
               maxImposters == getMaxImposters(session.playerCount.half)
           IN  IF ~ValidImposterCount(imposters, maxImposters)
               THEN [session |-> session, reply |-> "badImposterCount", draw |-> FALSE]
               ELSE [session |-> [session EXCEPT !.imposterCount = imposters],
                     reply |-> "none",
                     draw |-> TRUE]
      ELSE [session |-> session, reply |-> "useNewGame", draw |-> FALSE]

(***************************************************************************)
(* The Assignment Engine of the bot: what follows the loop.                *)
(***************************************************************************)
MakeAssignmentsShifted(names, imposterIndices, word) ==
  [i \in 1..Len(names) |->
     [id |-> i - 1,
      name |-> names[i],
      isImposter |-> i \in imposterIndices,
      word |-> IF i \in imposterIndices THEN Null ELSE word]]

MakeAssignmentsFromOne(names, imposterIndices, word) ==
  [i \in 1..Len(names) |->
     [id |-> i,
      name |-> names[i],
      isImposter |-> (i - 1) \in imposterIndices,
      word |-> IF (i - 1) \in imposterIndices THEN Null ELSE word]]

MakeAssignments(names, imposterIndices, word) ==
  [i \in 1..Len(names) |->
     [id |-> i - 1,
      name |-> names[i],
      isImposter |-> (i - 1) \in imposterIndices,
      word |-> IF (i - 1) \in imposterIndices THEN Null ELSE word]]

AssignKeepingWord(session, imposterIndices, word) ==
  [session EXCEPT
     !.assignments = MakeAssignments(session.playerNames, imposterIndices, word),
     !.votes = Fill(IntOf(session.playerCount), -1),
     !.currentRevealIndex = 0,
     !.wordRevealed = FALSE,
     !.currentVoterIndex = 0,
     !.stage = "reveal"]

Assign(session, imposterIndices, word) ==
  [session EXCEPT
     !.assignments = MakeAssignments(session.playerNames, imposterIndices, word),
     !.selectedWord = word,
     !.votes = Fill(IntOf(session.playerCount), -1),
     !.currentRevealIndex = 0,
     !.wordRevealed = FALSE,
     !.currentVoterIndex = 0,
     !.stage = "reveal"]

(***************************************************************************)
(* Callback data of the inline keyboards.                                  *)
(***************************************************************************)
REVEAL == <<"r", "e", "v", "e", "a", "l">>

VOTE == <<"v", "o", "t", "e">>

SHOW == <<"s", "h", "o", "w">>

NEXT == <<"n", "e", "x", "t">>

SELECT == <<"s", "e", "l", "e", "c", "t">>

CONFIRM == <<"c", "o", "n", "f", "i", "r", "m">>

RevealShow == REVEAL \o <<":">> \o SHOW

RevealNext == REVEAL \o <<":">> \o NEXT

VoteConfirm == VOTE \o <<":">> \o CONFIRM

VoteSelect(payload) == VOTE \o <<":">> \o SELECT \o <<":">> \o payload

(***************************************************************************)
(* buildRevealMessage: the text and the button of the reveal card.  The    *)
(* fixed phrases of the template are single symbols; the name, the         *)
(* counters and the word are spelled out.                                  *)
(***************************************************************************)
RevealIntro(session, player) ==
  <<"playerLabel">> \o player.name \o <<"roundLabel">>
    \o Numeral(session.currentRevealIndex + 1) \o <<"/">>
    \o Numeral(Len(session.assignments))

WordOrUnknown(word) == IF word = Null THEN <<"?", "?", "?">> ELSE word

buildRevealMessageLeaky(session) ==
  LET player == session.assignments[session.currentRevealIndex + 1]
      intro == RevealIntro(session, player)
  IN  IF ~session.wordRevealed
      THEN [text |-> intro \o <<"tapToSee">>, keyboard |-> RevealShow]
      ELSE LET baseText == intro \o <<"yourWordLabel">> \o session.selectedWord
               imposterNotice ==
                 IF player.isImposter THEN <<"youAreTheImposter">> ELSE <<>>
           IN  [text |-> baseText \o imposterNotice \o <<"goOn">>,
                keyboard |-> RevealNext]

buildRevealMessage(session) ==
  LET player == session.assignments[session.currentRevealIndex + 1]
      intro == RevealIntro(session, player)
  IN  IF ~session.wordRevealed
      THEN [text |-> intro \o <<"tapToSee">>, keyboard |-> RevealShow]
      ELSE LET word == WordOrUnknown(player.word)
               baseText == intro \o <<"yourWordLabel">> \o word
               imposterNotice ==
                 IF player.isImposter THEN <<"youAreTheImposter">> ELSE <<>>
           IN  [text |-> baseText \o imposterNotice \o <<"goOn">>,
                keyboard |-> RevealNext]

(***************************************************************************)
(* handleRevealCallbacks, after getSession: the Reveal Sequencer.          *)
(***************************************************************************)
NotYetRevealedNever(session) == FALSE

NotYetRevealedInverted(session) == session.wordRevealed

NotYetRevealed(session) == ~session.wordRevealed

NotRevealingNever(session) == FALSE

NotRevealing(session) == session.stage # "reveal"

OnReveal(session, data) ==
  IF NotRevealing(session)
  THEN [session |-> session, reply |-> "notInReveal"]
  ELSE IF data = RevealShow
  THEN IF session.wordRevealed
       THEN [session |-> session, reply |-> "alreadyRevealed"]
       ELSE [session |-> [session EXCEPT !.wordRevealed = TRUE],
             reply |-> "word"]
  ELSE IF data = RevealNext
  THEN IF NotYetRevealed(session)
       THEN [session |-> session, reply |-> "showFirst"]
       ELSE LET isLast ==
                  session.currentRevealIndex = Len(session.assignments) - 1
            IN  IF isLast
                THEN [session |-> [session EXCEPT !.stage = "voting",
                                                  !.currentVoterIndex = 0],
                      reply |-> "ballot"]
                ELSE [session |->
                        [session EXCEPT
                           !.currentRevealIndex = session.currentRevealIndex + 1,
                           !.wordRevealed = FALSE],
                      reply |-> "revealPrompt"]
  ELSE [session |-> session, reply |-> "none"]

(***************************************************************************)
(* handleVotingCallbacks, after getSession: the Voting Sequencer.          *)
(***************************************************************************)
(***************************************************************************)
(* buildVoteKeyboard and buildVoteMessage: the ballot of the current       *)
(* voter, one button per player, two to a row, then the confirm button.    *)
(***************************************************************************)
RECURSIVE PushButtons(_, _)
PushButtons(rows, buttons) ==
  IF buttons = <<>> THEN rows
  ELSE IF Len(rows) = 0 \/ Len(rows[Len(rows)]) = 2
  THEN PushButtons(Append(rows, <<Head(buttons)>>), Tail(buttons))
  ELSE PushButtons([rows EXCEPT ![Len(rows)] = Append(@, Head(buttons))],
                   Tail(buttons))

buildVoteKeyboardOthersOnly(session) ==
  LET selected == session.votes[session.currentVoterIndex + 1]
      others == SelectSeq([i \in 1..Len(session.assignments) |-> i],
                          LAMBDA i : i - 1 # session.currentVoterIndex)
      buttons ==
        [k \in 1..Len(others) |->
           [label |-> (IF selected = others[k] - 1 THEN <<"selectedMark">> ELSE <<>>)
                        \o session.assignments[others[k]].name,
            data |-> VoteSelect(Numeral(others[k] - 1))]]
  IN  Append(PushButtons(<<>>, buttons),
             <<[label |-> <<"confirmLabel">>, data |-> VoteConfirm]>>)

buildVoteKeyboard(session) ==
  LET selected == session.votes[session.currentVoterIndex + 1]
      buttons ==
        [i \in 1..Len(session.assignments) |->
           [label |-> (IF selected = i - 1 THEN <<"selectedMark">> ELSE <<>>)
                        \o session.assignments[i].name,
            data |-> VoteSelect(Numeral(i - 1))]]
  IN  Append(PushButtons(<<>>, buttons),
             <<[label |-> <<"confirmLabel">>, data |-> VoteConfirm]>>)
buildVoteMessageTagging(session) ==
  LET voter == session.assignments[session.currentVoterIndex + 1]
      selectedIndex == session.votes[session.currentVoterIndex + 1]
      selectedName ==
        IF selectedIndex >= 0 THEN session.assignments[selectedIndex + 1].name
        ELSE <<"noneYet">>
  IN  [text |-> <<"voterLabel">> \o voter.name
                  \o (IF voter.isImposter THEN <<"imposterTag">> ELSE <<>>)
                  \o <<"roundLabel">>
                  \o Numeral(session.currentVoterIndex + 1) \o <<"/">>
                  \o Numeral(Len(session.assignments))
                  \o <<"selectedLabel">> \o selectedName \o <<"remember">>,
       keyboard |-> buildVoteKeyboard(session)]


buildVoteMessage(session) ==
  LET voter == session.assignments[session.currentVoterIndex + 1]
      selectedIndex == session.votes[session.currentVoterIndex + 1]
      selectedName ==
        IF selectedIndex >= 0 THEN session.assignments[selectedIndex + 1].name
        ELSE <<"noneYet">>
  IN  [text |-> <<"voterLabel">> \o voter.name \o <<"roundLabel">>
                  \o Numeral(session.currentVoterIndex + 1) \o <<"/">>
                  \o Numeral(Len(session.assignments))
                  \o <<"selectedLabel">> \o selectedName \o <<"remember">>,
       keyboard |-> buildVoteKeyboard(session)]

Part(parts, k) == IF k <= Len(parts) THEN parts[k] ELSE Null

NumberOrUndefined(payload) == IF payload = Null THEN NaN ELSE Number(payload)

ValidTarget(index, length) ==
  ~(\/ ~IsInteger(index)
    \/ Less(index, Num(0))
    \/ GreaterEq(index, Num(length)))

RecordVoteOnce(session, index) ==
  IF session.votes[session.currentVoterIndex + 1] = -1
  THEN [session EXCEPT !.votes[session.currentVoterIndex + 1] = index]
  ELSE session

RecordVoteAtTarget(session, index) ==
  [session EXCEPT !.votes[index + 1] = index]

RecordVote(session, index) ==
  [session EXCEPT !.votes[session.currentVoterIndex + 1] = index]

NoSelectionNever(session) == FALSE

NoSelection(session) == session.votes[session.currentVoterIndex + 1] = -1

NotVoting(session) == session.stage # "voting"

OnVote(session, data) ==
  IF NotVoting(session)
  THEN [session |-> session, reply |-> "ack"]
  ELSE LET parts == Split(data, {":"})
           action == Part(parts, 1)
           type == Part(parts, 2)
           payload == Part(parts, 3)
       IN  IF action # VOTE
           THEN [session |-> session, reply |-> "ack"]
           ELSE IF type = SELECT
           THEN LET index == NumberOrUndefined(payload)
                IN  IF ~ValidTarget(index, Len(session.assignments))
                    THEN [session |-> session, reply |-> "invalidChoice"]
                    ELSE [session |-> RecordVote(session, IntOf(index)),
                          reply |-> "selected"]
           ELSE IF type = CONFIRM
           THEN IF NoSelection(session)
                THEN [session |-> session, reply |-> "selectFirst"]
                ELSE LET isLastVoter ==
                           session.currentVoterIndex = Len(session.assignments) - 1
                     IN  IF isLastVoter
                         THEN [session |-> [session EXCEPT !.stage = "result"],
                               reply |-> "result"]
                         ELSE [session |->
                                 [session EXCEPT
                                    !.currentVoterIndex =
                                       session.currentVoterIndex + 1],
                               reply |-> "ballot"]
           ELSE [session |-> session, reply |-> "none"]

(***************************************************************************)
(* bot.on('callback_query'): the dispatch on the data's prefix.            *)
(***************************************************************************)
OnCallback(session, data) ==
  IF StartsWith(data, REVEAL \o <<":">>) THEN OnReveal(session, data)
  ELSE IF StartsWith(data, VOTE \o <<":">>) THEN OnVote(session, data)
  ELSE [session |-> session, reply |-> "ack"]

TouchesSession(data) ==
  StartsWith(data, REVEAL \o <<":">>) \/ StartsWith(data, VOTE \o <<":">>)

(***************************************************************************)
(* computeResultSummary: the tally of the bot.  filter(...).length is a    *)
(* walk over the votes, reduce a fold from the left.                       *)
(***************************************************************************)
RECURSIVE FilterCount(_, _)
FilterCount(votes, value) ==
  IF votes = <<>> THEN 0
  ELSE (IF Head(votes) = value THEN 1 ELSE 0) + FilterCount(Tail(votes), value)

RECURSIVE ReduceHighest(_, _, _)
ReduceHighest(all, rest, acc) ==
  IF rest = <<>> THEN acc
  ELSE IF Head(rest) = -1 THEN ReduceHighest(all, Tail(rest), acc)
  ELSE ReduceHighest(all, Tail(rest), Max(acc, FilterCount(all, Head(rest))))

getVoteSummary(votes, players) ==
  [i \in 1..Len(players) |->
     [player |-> players[i], votes |-> FilterCount(votes, i - 1)]]

MostVotedFirst(voteSummary, highestVote) ==
  LET tied == SelectSeq(voteSummary,
                        LAMBDA entry : entry.votes = highestVote /\ highestVote > 0)
  IN  IF tied = <<>> THEN tied ELSE <<Head(tied)>>

MostVoted(voteSummary, highestVote) ==
  SelectSeq(voteSummary,
            LAMBDA entry : entry.votes = highestVote /\ highestVote > 0)

RECURSIVE Join(_, _)
Join(strs, sep) ==
  IF strs = <<>> THEN <<>>
  ELSE IF Len(strs) = 1 THEN Head(strs)
  ELSE Head(strs) \o sep \o Join(Tail(strs), sep)

PlayerNamesOf(entries) == [i \in 1..Len(entries) |-> entries[i].player.name]

computeResultSummary(session) ==
  LET highestVote == ReduceHighest(session.votes, session.votes, 0)
      voteSummary == getVoteSummary(session.votes, session.assignments)
      mostVoted == MostVoted(voteSummary, highestVote)
  IN  [highestVote |-> highestVote,
       voteSummary |-> voteSummary,
       mostVoted |-> mostVoted,
       mostVotedNames |-> Join(PlayerNamesOf(mostVoted), <<",", " ">>)]

(***************************************************************************)
(* The inputs offered to the bot.                                          *)
(***************************************************************************)
CountTexts ==
  {Numeral(n) : n \in 0..MaxCount}
    \cup {Numeral(MAX_PLAYERS + 1), <<"3", ".", "5">>, <<" ", "3", "\n">>}

NameTexts ==
  {<<",">>,
   <<" ", "a", " ", ",", ",", "w", "1", "\n", "c", ",", "d", ",", "e", " ">>,
   Numeral(MAX_PLAYERS + 1)}

OtherTexts == {<<"/", "f", "o", "o">>, <<"a", ",", "b">>}

Texts == CountTexts \cup NameTexts \cup OtherTexts

TextsAt(map, chatId) ==
  IF Has(map, chatId) /\ map[chatId].stage = "collectNames"
  THEN NameTexts \cup {<<"/", "f", "o", "o">>}
  ELSE Texts

Payloads ==
  {Numeral(i) : i \in (0 - 1)..MIN_PLAYERS}
    \cup {<<>>, <<"1", ".", "5">>, <<"x">>, Numeral(MAX_PLAYERS)}

CallbackData ==
  {RevealShow, RevealNext, VoteConfirm}
    \cup {VoteSelect(payload) : payload \in Payloads}
    \cup {VOTE \o <<":">> \o SELECT,
          VOTE \o <<":">> \o <<"x">>,
          REVEAL \o <<":">> \o <<"x">>,
          <<"x">>}

(***************************************************************************)
(* The bot's handlers as actions.                                          *)
(***************************************************************************)
Start(chatId) ==
  /\ frontend = "bot"
  /\ ~loop.running
  /\ sessions' = Put(sessions, chatId, resetSession)
  /\ UNCHANGED <<suspended, frontend, app, loop>>

NewGame(chatId) ==
  /\ frontend = "bot"
  /\ ~loop.running
  /\ sessions' = Put(sessions, chatId, resetSession)
  /\ UNCHANGED <<suspended, frontend, app, loop>>

TextMessage(chatId, text) ==
  /\ frontend = "bot"
  /\ ~loop.running
  /\ LET map == getSession(sessions, chatId)
         out == OnText(map[chatId], text)
     IN  /\ sessions' = Put(map, chatId, out.session)
         /\ loop' = IF out.draw THEN Drawing(chatId) ELSE loop
  /\ UNCHANGED <<suspended, frontend, app>>
DrawImposterButFirst(chatId) ==
  /\ frontend = "bot"
  /\ loop.running
  /\ loop.owner = chatId
  /\ 2 * Cardinality(loop.imposterIndices) < sessions[chatId].imposterCount.half
  /\ \E random \in 1..(IntOf(sessions[chatId].playerCount) - 1) :
       loop' = [loop EXCEPT !.imposterIndices = @ \cup {random}]
  /\ UNCHANGED <<suspended, frontend, sessions, app>>


DrawImposter(chatId) ==
  /\ frontend = "bot"
  /\ loop.running
  /\ loop.owner = chatId
  /\ 2 * Cardinality(loop.imposterIndices) < sessions[chatId].imposterCount.half
  /\ \E random \in 0..(IntOf(sessions[chatId].playerCount) - 1) :
       loop' = [loop EXCEPT !.imposterIndices = @ \cup {random}]
  /\ UNCHANGED <<suspended, frontend, sessions, app>>

FinishAssign(chatId) ==
  /\ frontend = "bot"
  /\ loop.running
  /\ loop.owner = chatId
  /\ ~(2 * Cardinality(loop.imposterIndices) < sessions[chatId].imposterCount.half)
  /\ \E word \in WORDS :
       sessions' = Put(sessions, chatId,
                       Assign(sessions[chatId], loop.imposterIndices, word))
  /\ loop' = Idle
  /\ UNCHANGED <<suspended, frontend, app>>

CallbackQuery(chatId, data) ==
  /\ frontend = "bot"
  /\ ~loop.running
  /\ sessions' =
       IF TouchesSession(data)
       THEN LET map == getSession(sessions, chatId)
            IN  Put(map, chatId, OnCallback(map[chatId], data).session)
       ELSE sessions
  /\ UNCHANGED <<suspended, frontend, app, loop>>

BotNext ==
  \E chatId \in Chats :
    \/ Start(chatId)
    \/ NewGame(chatId)
    \/ \E text \in TextsAt(sessions, chatId) : TextMessage(chatId, text)
    \/ DrawImposter(chatId)
    \/ FinishAssign(chatId)
    \/ \E data \in CallbackData : CallbackQuery(chatId, data)

(***************************************************************************)
(* Web client (function App): the component state and its handlers.        *)
(***************************************************************************)
AppInit ==
  [stage |-> "setup",
   playerCount |-> Num(WEB_DEFAULT_PLAYERS),
   playerNames |-> ensureNameList(2 * WEB_DEFAULT_PLAYERS, <<>>),
   imposterCount |-> Num(MIN_IMPOSTERS),
   assignments |-> <<>>,
   selectedWord |-> <<>>,
   currentRevealIndex |-> 0,
   wordRevealed |-> FALSE,
   votes |-> <<>>,
   currentVoterIndex |-> 0,
   error |-> "none"]

adjustPlayerCountUnclamped(state, count) ==
  LET safeCount == Max(2 * MIN_PLAYERS, Min(2 * MAX_PLAYERS, count.half))
  IN  [state EXCEPT
         !.playerCount = [nan |-> FALSE, half |-> safeCount],
         !.playerNames = ensureNameList(safeCount, state.playerNames)]

adjustPlayerCount(state, count) ==
  LET safeCount == Max(2 * MIN_PLAYERS, Min(2 * MAX_PLAYERS, count.half))
  IN  [state EXCEPT
         !.playerCount = [nan |-> FALSE, half |-> safeCount],
         !.playerNames = ensureNameList(safeCount, state.playerNames),
         !.imposterCount =
            [nan |-> FALSE,
             half |-> Min(state.imposterCount.half, getMaxImposters(safeCount))]]

adjustImposterCount(state, count) ==
  LET maxImposters == getMaxImposters(state.playerCount.half)
      safeCount == Max(2 * MIN_IMPOSTERS, Min(maxImposters, count.half))
  IN  [state EXCEPT !.imposterCount = [nan |-> FALSE, half |-> safeCount]]

handleNameChange(state, index, value) ==
  LET next == ensureNameList(state.playerCount.half, state.playerNames)
  IN  [state EXCEPT !.playerNames = [next EXCEPT ![index + 1] = value]]

SanitizeNames(names) ==
  [i \in 1..Len(names) |->
     IF Len(Trim(names[i])) > 0 THEN Trim(names[i]) ELSE createDefaultName(i - 1)]

(* handleStartGame up to the rejection-sampling loop *)
StartGame(state) ==
  LET sanitizedNames ==
        ensureNameList(state.playerCount.half, SanitizeNames(state.playerNames))
      maxImposters == getMaxImposters(2 * Len(sanitizedNames))
  IN  IF Len(sanitizedNames) < MIN_PLAYERS
      THEN [state |-> [state EXCEPT !.error = "minPlayers"], draw |-> FALSE]
      ELSE IF state.imposterCount.half > maxImposters
      THEN [state |-> [state EXCEPT !.error = "tooManyImposters"], draw |-> FALSE]
      ELSE [state |-> [state EXCEPT !.error = "none",
                                    !.playerNames = sanitizedNames],
            draw |-> TRUE]

(* handleStartGame after the loop; playerNames holds sanitizedNames *)
WebAssign(state, imposterIndices, word) ==
  [state EXCEPT
     !.assignments = MakeAssignments(state.playerNames, imposterIndices, word),
     !.selectedWord = word,
     !.votes = Fill(Len(state.playerNames), -1),
     !.currentVoterIndex = 0,
     !.currentRevealIndex = 0,
     !.wordRevealed = FALSE,
     !.stage = "reveal"]

handleResetKeepingWord(state) ==
  [state EXCEPT
     !.stage = "setup",
     !.assignments = <<>>,
     !.currentRevealIndex = 0,
     !.wordRevealed = FALSE,
     !.votes = <<>>,
     !.currentVoterIndex = 0,
     !.error = "none"]

handleReset(state) ==
  [state EXCEPT
     !.stage = "setup",
     !.assignments = <<>>,
     !.selectedWord = <<>>,
     !.currentRevealIndex = 0,
     !.wordRevealed = FALSE,
     !.votes = <<>>,
     !.currentVoterIndex = 0,
     !.error = "none"]

handleRevealWordToggle(state) ==
  [state EXCEPT !.wordRevealed = ~state.wordRevealed]

handleRevealWord(state) == [state EXCEPT !.wordRevealed = TRUE]

handleNextPlayerKeepShown(state) ==
  LET isLastPlayer == state.currentRevealIndex = Len(state.assignments) - 1
  IN  IF isLastPlayer
      THEN [state EXCEPT !.wordRevealed = FALSE,
                         !.stage = "voting",
                         !.currentVoterIndex = 0]
      ELSE [state EXCEPT !.currentRevealIndex = state.currentRevealIndex + 1]

handleNextPlayer(state) ==
  LET isLastPlayer == state.currentRevealIndex = Len(state.assignments) - 1
  IN  IF isLastPlayer
      THEN [state EXCEPT !.wordRevealed = FALSE,
                         !.stage = "voting",
                         !.currentVoterIndex = 0]
      ELSE [state EXCEPT !.wordRevealed = FALSE,
                         !.currentRevealIndex = state.currentRevealIndex + 1]

handleSelectVote(state, targetIndex) ==
  [state EXCEPT !.error = "none",
                !.votes[state.currentVoterIndex + 1] = targetIndex]

handleConfirmVoteCarrying(state) ==
  IF state.votes[state.currentVoterIndex + 1] = -1
  THEN [state EXCEPT !.error = "selectFirst"]
  ELSE LET isLastVoter == state.currentVoterIndex = Len(state.assignments) - 1
       IN  IF isLastVoter
           THEN [state EXCEPT !.stage = "result"]
           ELSE [state EXCEPT
                   !.currentVoterIndex = state.currentVoterIndex + 1,
                   !.votes[state.currentVoterIndex + 2] =
                      state.votes[state.currentVoterIndex + 1]]

handleConfirmVote(state) ==
  IF state.votes[state.currentVoterIndex + 1] = -1
  THEN [state EXCEPT !.error = "selectFirst"]
  ELSE LET isLastVoter == state.currentVoterIndex = Len(state.assignments) - 1
       IN  IF isLastVoter
           THEN [state EXCEPT !.stage = "result"]
           ELSE [state EXCEPT !.currentVoterIndex = state.currentVoterIndex + 1]

(***************************************************************************)
(* renderReveal: the reveal page of the web client, top to bottom.         *)
(***************************************************************************)
renderReveal(state) ==
  IF ~(state.currentRevealIndex < Len(state.assignments))
  THEN <<>>
  ELSE LET currentPlayer == state.assignments[state.currentRevealIndex + 1]
       IN  <<"roundLabel">> \o Numeral(state.currentRevealIndex + 1) \o <<"/">>
             \o Numeral(Len(state.assignments))
             \o currentPlayer.name \o <<"getReady">>
             \o (IF state.wordRevealed
                 THEN <<"yourWordLabel">> \o WordOrUnknown(currentPlayer.word)
                        \o (IF currentPlayer.isImposter
                            THEN <<"youAreTheImposter">> ELSE <<>>)
                 ELSE <<"showButton">>)
             \o (IF state.wordRevealed THEN <<"nextButton">> ELSE <<>>)
             \o <<"remainingLabel">>
             \o Numeral(Len(state.assignments) - state.currentRevealIndex - 1)

(***************************************************************************)
(* renderResult: the tally of the web client, over the voteSummary memo.   *)
(***************************************************************************)
RECURSIVE ReduceMax(_, _)
ReduceMax(voteSummary, max) ==
  IF voteSummary = <<>> THEN max
  ELSE ReduceMax(Tail(voteSummary), Max(max, Head(voteSummary).votes))

renderResult(state) ==
  LET voteSummary == getVoteSummary(state.votes, state.assignments)
      highestVote == ReduceMax(voteSummary, 0)
      mostVoted == MostVoted(voteSummary, highestVote)
  IN  [highestVote |-> highestVote,
       voteSummary |-> voteSummary,
       mostVoted |-> mostVoted,
       mostVotedNames |-> Join(PlayerNamesOf(mostVoted), <<",", " ">>)]

(***************************************************************************)
(* The inputs offered to the web client, and what the rendered page lets   *)
(* the user do.                                                            *)
(***************************************************************************)
NumberInputs ==
  {Numeral(n) : n \in 0..MaxCount}
    \cup {<<>>, <<"3", ".", "5">>, <<"1", ".", "5">>, Numeral(MAX_PLAYERS + 1)}

NameValues == {<<>>, <<" ", "z", " ">>}

NameIndexes == {0, MIN_PLAYERS - 1}

PlayerCountButton(delta) ==
  /\ frontend = "web"
  /\ ~loop.running
  /\ app.stage = "setup"
  /\ delta = 1 => ~(app.playerCount.half >= 2 * MAX_PLAYERS)
  /\ delta = 0 - 1 => ~(app.playerCount.half <= 2 * MIN_PLAYERS)
  /\ app' = adjustPlayerCount(app, [app.playerCount EXCEPT !.half = @ + 2 * delta])
  /\ UNCHANGED <<suspended, frontend, sessions, loop>>

PlayerCountInput(value) ==
  /\ frontend = "web"
  /\ ~loop.running
  /\ app.stage = "setup"
  /\ LET inputValue == Number(value)
     IN  app' = IF IsNaN(inputValue) THEN app ELSE adjustPlayerCount(app, inputValue)
  /\ UNCHANGED <<suspended, frontend, sessions, loop>>

ImposterCountButton(delta) ==
  /\ frontend = "web"
  /\ ~loop.running
  /\ app.stage = "setup"
  /\ delta = 1 => ~(app.imposterCount.half >= getMaxImposters(app.playerCount.half))
  /\ delta = 0 - 1 => ~(app.imposterCount.half <= 2 * MIN_IMPOSTERS)
  /\ app' = adjustImposterCount(app, [app.imposterCount EXCEPT !.half = @ + 2 * delta])
  /\ UNCHANGED <<suspended, frontend, sessions, loop>>

ImposterCountInput(value) ==
  /\ frontend = "web"
  /\ ~loop.running
  /\ app.stage = "setup"
  /\ LET inputValue == Number(value)
     IN  app' = IF IsNaN(inputValue) THEN app ELSE adjustImposterCount(app, inputValue)
  /\ UNCHANGED <<suspended, frontend, sessions, loop>>

NameChange(index, value) ==
  /\ frontend = "web"
  /\ ~loop.running
  /\ app.stage = "setup"
  /\ index < Len(ensureNameList(app.playerCount.half, app.playerNames))
  /\ app' = handleNameChange(app, index, value)
  /\ UNCHANGED <<suspended, frontend, sessions, loop>>

ClickStartGame(limit) ==
  /\ frontend = "web"
  /\ ~loop.running
  /\ app.stage = "setup"
  /\ app.playerCount.half <= 2 * limit
  /\ LET out == StartGame(app)
     IN  /\ app' = out.state
         /\ loop' = IF out.draw THEN Drawing("web") ELSE loop
  /\ UNCHANGED <<suspended, frontend, sessions>>

WebDrawImposter ==
  /\ frontend = "web"
  /\ loop.running
  /\ 2 * Cardinality(loop.imposterIndices) < app.imposterCount.half
  /\ \E randomIndex \in 0..(Len(app.playerNames) - 1) :
       loop' = [loop EXCEPT !.imposterIndices = @ \cup {randomIndex}]
  /\ UNCHANGED <<suspended, frontend, sessions, app>>

WebFinishAssign ==
  /\ frontend = "web"
  /\ loop.running
  /\ ~(2 * Cardinality(loop.imposterIndices) < app.imposterCount.half)
  /\ \E word \in WORDS : app' = WebAssign(app, loop.imposterIndices, word)
  /\ loop' = Idle
  /\ UNCHANGED <<suspended, frontend, sessions>>

ClickReset ==
  /\ frontend = "web"
  /\ ~loop.running
  /\ app.stage # "setup"
  /\ app' = handleReset(app)
  /\ UNCHANGED <<suspended, frontend, sessions, loop>>

ClickRevealWord ==
  /\ frontend = "web"
  /\ ~loop.running
  /\ app.stage = "reveal"
  /\ app.currentRevealIndex < Len(app.assignments)
  /\ ~app.wordRevealed
  /\ app' = handleRevealWord(app)
  /\ UNCHANGED <<suspended, frontend, sessions, loop>>

ClickNextPlayer ==
  /\ frontend = "web"
  /\ ~loop.running
  /\ app.stage = "reveal"
  /\ app.currentRevealIndex < Len(app.assignments)
  /\ app.wordRevealed
  /\ app' = handleNextPlayer(app)
  /\ UNCHANGED <<suspended, frontend, sessions, loop>>

ClickSelectVote(index) ==
  /\ frontend = "web"
  /\ ~loop.running
  /\ app.stage = "voting"
  /\ app.currentVoterIndex < Len(app.assignments)
  /\ index < Len(app.assignments)
  /\ app' = handleSelectVote(app, index)
  /\ UNCHANGED <<suspended, frontend, sessions, loop>>

ClickConfirmVote ==
  /\ frontend = "web"
  /\ ~loop.running
  /\ app.stage = "voting"
  /\ app.currentVoterIndex < Len(app.assignments)
  /\ app' = handleConfirmVote(app)
  /\ UNCHANGED <<suspended, frontend, sessions, loop>>

WebNext ==
  \/ \E delta \in {0 - 1, 1} : PlayerCountButton(delta)
  \/ \E value \in NumberInputs : PlayerCountInput(value)
  \/ \E delta \in {0 - 1, 1} : ImposterCountButton(delta)
  \/ \E value \in NumberInputs : ImposterCountInput(value)
  \/ \E index \in NameIndexes, value \in NameValues : NameChange(index, value)
  \/ ClickStartGame(MaxCount)
  \/ WebDrawImposter
  \/ WebFinishAssign
  \/ ClickReset
  \/ ClickRevealWord
  \/ ClickNextPlayer
  \/ \E index \in 0..(MAX_PLAYERS - 1) : ClickSelectVote(index)
  \/ ClickConfirmVote

(***************************************************************************)
(* A run is a run of one of the two programs.                              *)
(***************************************************************************)
Init ==
  /\ frontend \in {"bot", "web"}
  /\ sessions = <<>>
  /\ app = AppInit
  /\ loop = Idle
  /\ suspended = <<>>

Next == BotNext \/ WebNext

Spec == Init /\ [][Next]_vars

(***************************************************************************)
(* The Setup Controller and the Assignment Engine alone, over the whole    *)
(* range of player counts: no reveal and no vote is played.                *)
(***************************************************************************)
SetupCounts ==
  0..(MIN_PLAYERS + 1) \cup (MAX_PLAYERS - 1)..(MAX_PLAYERS + 1)

SetupTexts ==
  {Numeral(n) : n \in SetupCounts} \cup {<<"3", ".", "5">>, <<"a", ",", "b">>}

SetupTextsAt(map, chatId) ==
  IF Has(map, chatId) /\ map[chatId].stage = "collectNames"
  THEN NameTexts
  ELSE SetupTexts

SetupNumberInputs ==
  {Numeral(n) : n \in SetupCounts} \cup {<<>>, <<"3", ".", "5">>, <<"1", ".", "5">>}

BotSetupNext ==
  \E chatId \in Chats :
    \/ Start(chatId)
    \/ NewGame(chatId)
    \/ \E text \in SetupTextsAt(sessions, chatId) : TextMessage(chatId, text)
    \/ DrawImposter(chatId)
    \/ FinishAssign(chatId)

WebSetupNext ==
  \/ \E value \in SetupNumberInputs : PlayerCountInput(value)
  \/ \E value \in SetupNumberInputs : ImposterCountInput(value)
  \/ \E index \in NameIndexes, value \in NameValues : NameChange(index, value)
  \/ ClickStartGame(MAX_PLAYERS)
  \/ WebDrawImposter
  \/ WebFinishAssign
  \/ ClickReset

SetupNext == BotSetupNext \/ WebSetupNext

SpecSetup == Init /\ [][SetupNext]_vars

(***************************************************************************)
(* The same, with the loop running on: the handler that entered the        *)
(* while loop keeps executing, and the random source is fair, so a draw    *)
(* that adds an index not yet held (the only draw that changes the state)  *)
(* cannot be put off forever.                                              *)
(***************************************************************************)
LoopFairness ==
  /\ \A chatId \in Chats :
       WF_vars(DrawImposter(chatId)) /\ WF_vars(FinishAssign(chatId))
  /\ WF_vars(WebDrawImposter)
  /\ WF_vars(WebFinishAssign)

SpecSetupFair == SpecSetup /\ LoopFairness

(***************************************************************************)
(* Whole games with inputs that keep arriving and no reset (/start,        *)
(* /newgame, the web reset button).  The web page has been set             *)
(* to MIN_PLAYERS and its count field is given counts up to MaxCount, so   *)
(* that every game set up is one that is played.  The inputs that move a   *)
(* game on (a text of the setup, show, next, confirm, start game, and the  *)
(* steps of the draw) are not withheld forever, and neither is a change of *)
(* the ballot.                                                             *)
(***************************************************************************)
LiveCountInputs == {Numeral(n) : n \in 0..MaxCount}

LiveWebNext ==
  \/ \E value \in LiveCountInputs : PlayerCountInput(value)
  \/ \E value \in NumberInputs : ImposterCountInput(value)
  \/ \E index \in NameIndexes, value \in NameValues : NameChange(index, value)
  \/ ClickStartGame(MaxCount)
  \/ WebDrawImposter
  \/ WebFinishAssign
  \/ ClickRevealWord
  \/ ClickNextPlayer
  \/ \E index \in 0..(MAX_PLAYERS - 1) : ClickSelectVote(index)
  \/ ClickConfirmVote

LiveBotNext ==
  \E chatId \in Chats :
    \/ \E text \in TextsAt(sessions, chatId) : TextMessage(chatId, text)
    \/ DrawImposter(chatId)
    \/ FinishAssign(chatId)
    \/ \E data \in CallbackData : CallbackQuery(chatId, data)

LiveNext == LiveBotNext \/ LiveWebNext

InitLive ==
  /\ frontend \in {"bot", "web"}
  /\ sessions = <<>>
  /\ app = adjustPlayerCount(AppInit, Num(MIN_PLAYERS))
  /\ loop = Idle
  /\ suspended = <<>>

Advance ==
  \/ \E chatId \in Chats :
       \/ \E text \in TextsAt(sessions, chatId) : TextMessage(chatId, text)
       \/ DrawImposter(chatId)
       \/ FinishAssign(chatId)
       \/ \E data \in {RevealShow, RevealNext, VoteConfirm} :
            CallbackQuery(chatId, data)
  \/ ClickStartGame(MaxCount)
  \/ WebDrawImposter
  \/ WebFinishAssign
  \/ ClickRevealWord
  \/ ClickNextPlayer
  \/ ClickConfirmVote

(* the step of a vote:select callback whose target is accepted *)
SelectAccepted(chatId, index) ==
  /\ frontend = "bot"
  /\ ~loop.running
  /\ Has(sessions, chatId)
  /\ ~NotVoting(sessions[chatId])
  /\ ValidTarget(Num(index), Len(sessions[chatId].assignments))
  /\ sessions' = Put(sessions, chatId, RecordVote(sessions[chatId], index))
  /\ UNCHANGED <<suspended, frontend, app, loop>>

Select ==
  \/ \E chatId \in Chats, index \in 0..(MAX_PLAYERS - 1) :
       SelectAccepted(chatId, index)
  \/ \E index \in 0..(MAX_PLAYERS - 1) : ClickSelectVote(index)

InputFairness == WF_vars(Advance) /\ WF_vars(Select)

SpecLive == InitLive /\ [][LiveNext]_vars /\ InputFairness

(***************************************************************************)
(* The web client alone, with games of one more player than MaxCount, so   *)
(* that a game started from a fractional player count is played through.   *)
(***************************************************************************)
WebWideNext ==
  \/ \E delta \in {0 - 1, 1} : PlayerCountButton(delta)
  \/ \E value \in NumberInputs : PlayerCountInput(value)
  \/ \E delta \in {0 - 1, 1} : ImposterCountButton(delta)
  \/ \E value \in NumberInputs : ImposterCountInput(value)
  \/ \E index \in NameIndexes, value \in NameValues : NameChange(index, value)
  \/ ClickStartGame(MaxCount + 1)
  \/ WebDrawImposter
  \/ WebFinishAssign
  \/ ClickReset
  \/ ClickRevealWord
  \/ ClickNextPlayer
  \/ \E index \in 0..(MAX_PLAYERS - 1) : ClickSelectVote(index)
  \/ ClickConfirmVote

InitWeb ==
  /\ frontend = "web"
  /\ sessions = <<>>
  /\ app = AppInit
  /\ loop = Idle
  /\ suspended = <<>>

SpecWeb == InitWeb /\ [][WebWideNext]_vars

(***************************************************************************)
(* The bot serving two chats: the sessions Map holds one Session per chat  *)
(* id, and a handler runs to completion before the next update is taken.   *)
(***************************************************************************)
TwoChats == {"A", "B"}

ChatTexts == {Numeral(MIN_PLAYERS), Numeral(MIN_IMPOSTERS), <<"a", ",", "b">>}

ChatCallbacks ==
  {RevealShow, RevealNext, VoteConfirm, VoteSelect(Numeral(1))}

InitBot ==
  /\ frontend = "bot"
  /\ sessions = <<>>
  /\ app = AppInit
  /\ loop = Idle
  /\ suspended = <<>>

ChatsNext ==
  \E chatId \in TwoChats :
    \/ Start(chatId)
    \/ NewGame(chatId)
    \/ \E text \in ChatTexts : TextMessage(chatId, text)
    \/ DrawImposter(chatId)
    \/ FinishAssign(chatId)
    \/ \E data \in ChatCallbacks : CallbackQuery(chatId, data)

SpecChats == InitBot /\ [][ChatsNext]_vars

(***************************************************************************)
(* The bot's handlers with their await points.  A handler runs from its    *)
(* start to its first awaited transport call without interruption (the     *)
(* event loop gives the thread up only at an await), then waits; while it  *)
(* waits other handlers of the same chat start and resume in any order.    *)
(* suspended lists the handlers waiting at an await, with the number of    *)
(* transport calls each still has to get through.                          *)
(***************************************************************************)
MaxSuspended == 2

Awaits(reply) ==
  CASE reply = "none" -> 0
    [] reply \in {"badPlayerCount", "askNames", "askImposterCount",
                  "badImposterCount", "useNewGame", "welcome", "ack",
                  "notInReveal", "alreadyRevealed", "showFirst",
                  "invalidChoice", "selectFirst"} -> 1
    [] reply \in {"assigned", "word", "revealPrompt", "selected"} -> 2
    [] reply \in {"ballot", "result"} -> 3

Suspend(list, chatId, reply) ==
  IF Awaits(reply) = 0 THEN list
  ELSE Append(list, [chatId |-> chatId, awaits |-> Awaits(reply)])

(* what a handler does to the sessions Map after an await returns *)
ContinueWriting(map, handler) ==
  IF Has(map, handler.chatId)
  THEN Put(map, handler.chatId, [map[handler.chatId] EXCEPT !.wordRevealed = FALSE])
  ELSE map

Continue(map, handler) == map

Resumed(list, i) ==
  IF list[i].awaits = 1
  THEN SubSeq(list, 1, i - 1) \o SubSeq(list, i + 1, Len(list))
  ELSE [list EXCEPT ![i].awaits = @ - 1]

AsyncReset(chatId) ==
  /\ frontend = "bot"
  /\ ~loop.running
  /\ Len(suspended) < MaxSuspended
  /\ sessions' = Put(sessions, chatId, resetSession)
  /\ suspended' = Suspend(suspended, chatId, "welcome")
  /\ UNCHANGED <<frontend, app, loop>>

AsyncText(chatId, text) ==
  /\ frontend = "bot"
  /\ ~loop.running
  /\ Len(suspended) < MaxSuspended
  /\ LET map == getSession(sessions, chatId)
         out == OnText(map[chatId], text)
     IN  /\ sessions' = Put(map, chatId, out.session)
         /\ loop' = IF out.draw THEN Drawing(chatId) ELSE loop
         /\ suspended' = IF out.draw THEN suspended
                         ELSE Suspend(suspended, chatId, out.reply)
  /\ UNCHANGED <<frontend, app>>

AsyncFinishAssign(chatId) ==
  /\ frontend = "bot"
  /\ loop.running
  /\ loop.owner = chatId
  /\ ~(2 * Cardinality(loop.imposterIndices) < sessions[chatId].imposterCount.half)
  /\ \E word \in WORDS :
       sessions' = Put(sessions, chatId,
                       Assign(sessions[chatId], loop.imposterIndices, word))
  /\ loop' = Idle
  /\ suspended' = Suspend(suspended, chatId, "assigned")
  /\ UNCHANGED <<frontend, app>>

AsyncCallback(chatId, data) ==
  /\ frontend = "bot"
  /\ ~loop.running
  /\ Len(suspended) < MaxSuspended
  /\ LET map == getSession(sessions, chatId)
         out == OnCallback(map[chatId], data)
     IN  /\ sessions' = IF TouchesSession(data)
                        THEN Put(map, chatId, out.session)
                        ELSE sessions
         /\ suspended' = Suspend(suspended, chatId, out.reply)
  /\ UNCHANGED <<frontend, app, loop>>

Resume(i) ==
  /\ frontend = "bot"
  /\ ~loop.running
  /\ i \in 1..Len(suspended)
  /\ sessions' = Continue(sessions, suspended[i])
  /\ suspended' = Resumed(suspended, i)
  /\ UNCHANGED <<frontend, app, loop>>

AsyncTexts == {Numeral(MIN_PLAYERS), Numeral(1), <<"a", ",", "b">>}

AsyncCallbacks ==
  {RevealShow, RevealNext, VoteConfirm, VoteSelect(Numeral(1)), <<"x">>}

AsyncNext ==
  \/ \E chatId \in Chats :
       \/ AsyncReset(chatId)
       \/ \E text \in AsyncTexts : AsyncText(chatId, text)
       \/ DrawImposter(chatId)
       \/ AsyncFinishAssign(chatId)
       \/ \E data \in AsyncCallbacks : AsyncCallback(chatId, data)
  \/ \E i \in 1..(MaxSuspended + 1) : Resume(i)

SpecAsync == InitBot /\ [][AsyncNext]_vars

(***************************************************************************)
(* The bot and the web client side by side: both start in the state the    *)
(* assignment leaves for the same names, imposter indices and word, and    *)
(* every request of the Sequencer is given to both.  The web client takes  *)
(* a request only through the button its page renders; a request whose     *)
(* button is not on the page cannot be issued and leaves the state alone.  *)
(***************************************************************************)
PairRequests ==
  {[kind |-> "show", target |-> 0],
   [kind |-> "next", target |-> 0],
   [kind |-> "confirm", target |-> 0]}
    \cup {[kind |-> "select", target |-> t] : t \in 0..MaxCount}

DataOf(request) ==
  CASE request.kind = "show" -> RevealShow
    [] request.kind = "next" -> RevealNext
    [] request.kind = "confirm" -> VoteConfirm
    [] request.kind = "select" -> VoteSelect(Numeral(request.target))

BotRequest(session, request) == OnCallback(session, DataOf(request)).session

WebOffers(state, request) ==
  CASE request.kind = "show" ->
         /\ state.stage = "reveal"
         /\ state.currentRevealIndex < Len(state.assignments)
         /\ ~state.wordRevealed
    [] request.kind = "next" ->
         /\ state.stage = "reveal"
         /\ state.currentRevealIndex < Len(state.assignments)
         /\ state.wordRevealed
    [] request.kind = "select" ->
         /\ state.stage = "voting"
         /\ state.currentVoterIndex < Len(state.assignments)
         /\ request.target < Len(state.assignments)
    [] request.kind = "confirm" ->
         /\ state.stage = "voting"
         /\ state.currentVoterIndex < Len(state.assignments)

WebRequest(state, request) ==
  IF ~WebOffers(state, request) THEN state
  ELSE CASE request.kind = "show" -> handleRevealWord(state)
         [] request.kind = "next" -> handleNextPlayer(state)
         [] request.kind = "select" -> handleSelectVote(state, request.target)
         [] request.kind = "confirm" -> handleConfirmVote(state)

InitPair ==
  /\ frontend = "pair"
  /\ loop = Idle
  /\ suspended = <<>>
  /\ \E n \in MIN_PLAYERS..MaxCount :
       \E imposterIndices \in SUBSET (0..(n - 1)) :
         \E word \in WORDS :
           LET k == Cardinality(imposterIndices)
               names == ensureNameList(2 * n, <<>>)
           IN  /\ k >= MIN_IMPOSTERS
               /\ 2 * k <= getMaxImposters(2 * n)
               /\ sessions =
                    [chatId \in Chats |->
                       Assign([resetSession EXCEPT !.stage = "askImposterCount",
                                                   !.playerCount = Num(n),
                                                   !.playerNames = names,
                                                   !.imposterCount = Num(k)],
                              imposterIndices, word)]
               /\ app =
                    WebAssign([AppInit EXCEPT !.playerCount = Num(n),
                                              !.playerNames = names,
                                              !.imposterCount = Num(k)],
                              imposterIndices, word)

PairStep(request) ==
  /\ frontend = "pair"
  /\ sessions' = [chatId \in DOMAIN sessions |->
                    BotRequest(sessions[chatId], request)]
  /\ app' = WebRequest(app, request)
  /\ UNCHANGED <<suspended, frontend, loop>>

PairNext == \E request \in PairRequests : PairStep(request)

SpecPair == InitPair /\ [][PairNext]_vars

(***************************************************************************)
(* What the two front-ends render.  createResultMessage is the bot's       *)
(* result message, joined with line breaks; Message is what a callback     *)
(* handler sends, built from the Session it leaves (the texts that do not  *)
(* depend on the Session are named by their reply).  renderVoting and      *)
(* renderResultPage are the voting and result pages of the web client and  *)
(* Page is what the App shows below its title in a played stage: the       *)
(* reset button, the error banner and the page of the stage.               *)
(***************************************************************************)
ImpostersOf(assignments) == SelectSeq(assignments, LAMBDA player : player.isImposter)

NamesOf(players) == [i \in 1..Len(players) |-> players[i].name]

createResultMessage(session) ==
  LET summary == computeResultSummary(session)
      imposters == ImpostersOf(session.assignments)
      imposterNames == Join(NamesOf(imposters), <<",", " ">>)
      isPlural == Len(imposters) > 1
      lines ==
        <<<<"gameOver">>,
          <<>>,
          imposterNames
            \o (IF isPlural THEN <<"wereTheImposters">> ELSE <<"wasTheImposter">>),
          <<"realWordLabel">> \o session.selectedWord,
          <<>>,
          <<"voteSummaryLabel">>>>
          \o [i \in 1..Len(summary.voteSummary) |->
                summary.voteSummary[i].player.name
                  \o (IF summary.voteSummary[i].player.isImposter
                      THEN <<"imposterTag">> ELSE <<>>)
                  \o <<":">> \o Numeral(summary.voteSummary[i].votes)
                  \o <<"votesLabel">>]
          \o (IF summary.highestVote > 0
              THEN << <<>>, <<"mostVotedLabel">> \o summary.mostVotedNames >>
              ELSE << <<>>, <<"nobodyChosen">> >>)
  IN  Join(lines, <<"\n">>)

Message(out) ==
  CASE out.reply \in {"word", "revealPrompt"} -> buildRevealMessage(out.session)
    [] out.reply \in {"ballot", "selected"} -> buildVoteMessage(out.session)
    [] out.reply = "result" ->
         [text |-> createResultMessage(out.session), keyboard |-> <<>>]
    [] OTHER -> [text |-> <<out.reply>>, keyboard |-> <<>>]

renderVoting(state) ==
  IF ~(state.currentVoterIndex < Len(state.assignments))
  THEN <<>>
  ELSE LET currentVoter == state.assignments[state.currentVoterIndex + 1]
           buttons ==
             [i \in 1..Len(state.assignments) |->
                <<"playerNo">> \o Numeral(state.assignments[i].id + 1)
                  \o state.assignments[i].name
                  \o (IF state.votes[state.currentVoterIndex + 1] = i - 1
                      THEN <<"selectedMark">> ELSE <<"?">>)]
       IN  <<"voteLabel">> \o Numeral(state.currentVoterIndex + 1) \o <<"/">>
             \o Numeral(Len(state.assignments))
             \o currentVoter.name \o <<"accuse">>
             \o Join(buttons, <<>>)
             \o <<"confirmButton">>
             \o <<"yourTask">> \o currentVoter.name
             \o <<"remainingLabel">>
             \o Numeral(Len(state.assignments) - state.currentVoterIndex - 1)

renderResultPage(state) ==
  LET imposters == ImpostersOf(state.assignments)
      summary == renderResult(state)
      cards == [i \in 1..Len(imposters) |-> imposters[i].name \o <<"imposterTag">>]
      entries ==
        [i \in 1..Len(summary.voteSummary) |->
           summary.voteSummary[i].player.name
             \o (IF summary.voteSummary[i].player.isImposter
                 THEN <<"imposterTag">> ELSE <<>>)
             \o Numeral(summary.voteSummary[i].votes)]
  IN  IF Len(imposters) = 0 THEN <<>>
      ELSE <<"resultLabel">>
             \o Join(NamesOf(imposters), <<",", " ">>)
             \o (IF Len(imposters) > 1
                 THEN <<"wereTheImposters">> ELSE <<"wasTheImposter">>)
             \o <<"realWordLabel">> \o state.selectedWord
             \o Join(cards, <<>>)
             \o <<"playAgainButton">>
             \o <<"voteSummaryLabel">> \o Join(entries, <<>>)
             \o (IF summary.highestVote > 0
                 THEN <<"mostVotedLabel">> \o summary.mostVotedNames
                 ELSE <<"nobodyChosen">>)

Page(state) ==
  <<"resetButton">>
    \o (IF state.error # "none" THEN <<state.error>> ELSE <<>>)
    \o CASE state.stage = "reveal" -> renderReveal(state)
         [] state.stage = "voting" -> renderVoting(state)
         [] state.stage = "result" -> renderResultPage(state)

(***************************************************************************)
(* Views used by the properties.                                           *)
(***************************************************************************)
BotSessions == {sessions[c] : c \in DOMAIN sessions}

Played == {"reveal", "voting", "result"}

Imposters(assignments) ==
  {i \in 1..Len(assignments) : assignments[i].isImposter}

ValidCounts(playerCount, imposterCount) ==
  /\ IsInteger(playerCount)
  /\ IsInteger(imposterCount)
  /\ 2 * MIN_PLAYERS <= playerCount.half
  /\ playerCount.half <= 2 * MAX_PLAYERS
  /\ 2 <= imposterCount.half
  /\ imposterCount.half <= playerCount.half - 2

ExactImposters(s) ==
  (s.stage \in Played /\ ValidCounts(s.playerCount, s.imposterCount))
    => 2 * Cardinality(Imposters(s.assignments)) = s.imposterCount.half

(* C1: for valid counts (3 <= n <= 12, 1 <= k <= n - 1) the number of
   assignments with isImposter = true equals imposterCount in every state
   from the assignment on (reveal, voting, result), whatever was drawn. *)
C1_ExactImposterCount ==
  /\ \A s \in BotSessions : ExactImposters(s)
  /\ ExactImposters(app)

C1_Witness ==
  \E s \in BotSessions :
    /\ s.stage = "result"
    /\ s.imposterCount = Num(2)
    /\ Imposters(s.assignments) = {1, 3}

WordsConsistent(s) ==
  s.stage \in Played =>
    /\ s.selectedWord \in WORDS
    /\ \A i \in 1..Len(s.assignments) :
         s.assignments[i].word =
           IF s.assignments[i].isImposter THEN Null ELSE s.selectedWord

(* C2: from the assignment on, every non-imposter's word is selectedWord (one
   word of the list, the same for all of them) and every imposter's word is
   null. *)
C2_WordRoundTrip ==
  /\ \A s \in BotSessions : WordsConsistent(s)
  /\ WordsConsistent(app)

C2_Witness ==
  \E s \in BotSessions :
    /\ s.stage = "voting"
    /\ s.selectedWord = <<"w", "2">>
    /\ s.assignments[1].word = Null
    /\ s.assignments[2].word = <<"w", "2">>
    /\ s.assignments[3].word = <<"w", "2">>

LengthsMatch(s) ==
  (s.stage = "reveal" /\ IsInteger(s.playerCount)) =>
    /\ 2 * Len(s.assignments) = s.playerCount.half
    /\ 2 * Len(s.votes) = s.playerCount.half

(* C3: when setup completes with an integer player count n in 3..12 (any
   number of name tokens, any valid imposter count), assignments and votes
   both have exactly n entries. *)
C3_SetupYieldsNEntries ==
  /\ \A s \in BotSessions : LengthsMatch(s)
  /\ LengthsMatch(app)

C3_Witness ==
  \E s \in BotSessions :
    /\ s.stage = "reveal"
    /\ s.playerCount = Num(MAX_PLAYERS)
    /\ Len(s.assignments) = MAX_PLAYERS
    /\ s.playerNames[1] = <<"a">>
    /\ s.playerNames[6] = createDefaultName(5)

PlayerCountInRange(s) ==
  /\ IsInteger(s.playerCount)
  /\ 2 * MIN_PLAYERS <= s.playerCount.half
  /\ s.playerCount.half <= 2 * MAX_PLAYERS

(* C4: in every reachable state playerCount is an integer with
   MIN_PLAYERS <= playerCount <= MAX_PLAYERS, in the bot and in the web
   client. *)
C4_PlayerCountIntegerInRange ==
  /\ \A s \in BotSessions : PlayerCountInRange(s)
  /\ PlayerCountInRange(app)

ImposterCountInRange(s) ==
  /\ ~s.imposterCount.nan
  /\ ~s.playerCount.nan
  /\ 2 * 1 <= s.imposterCount.half
  /\ s.imposterCount.half <= s.playerCount.half - 2

(* C5: in every reachable state 1 <= imposterCount <= playerCount - 1, in
   the bot and in the web client, also after playerCount is lowered. *)
C5_ImposterCountInRange ==
  /\ \A s \in BotSessions : ImposterCountInRange(s)
  /\ ImposterCountInRange(app)

C5_Witness ==
  /\ frontend = "web"
  /\ app.playerCount = Num(MIN_PLAYERS)
  /\ app.imposterCount = Num(MIN_PLAYERS - 1)
  /\ Len(app.playerNames) = MIN_PLAYERS

AllTexts == Texts \cup SetupTexts

IsCommand(text) == StartsWith(Trim(text), <<"/">>)

CountOutOfRange(text) ==
  LET n == Number(Trim(text))
  IN  /\ ~IsCommand(text)
      /\ ~n.nan
      /\ (n.half < 2 * MIN_PLAYERS \/ n.half > 2 * MAX_PLAYERS)

(* C6: in stage askPlayerCount a numeric text below 3 or above 12 is answered
   with the out-of-range reply and the handler leaves the Session as it was
   (playerCount, playerNames and stage included) and starts no draw. *)
C6_PlayerCountOutOfRangeRejected ==
  \A s \in BotSessions :
    s.stage = "askPlayerCount" =>
      \A text \in AllTexts :
        CountOutOfRange(text) =>
          OnText(s, text) =
            [session |-> s, reply |-> "badPlayerCount", draw |-> FALSE]

C6_Witness ==
  \E s \in BotSessions :
    /\ s.stage = "askPlayerCount"
    /\ Numeral(MIN_PLAYERS - 1) \in AllTexts
    /\ Numeral(MAX_PLAYERS + 1) \in AllTexts
    /\ CountOutOfRange(Numeral(MIN_PLAYERS - 1))
    /\ CountOutOfRange(Numeral(MAX_PLAYERS + 1))
    /\ OnText(s, Numeral(MIN_PLAYERS - 1)).reply = "badPlayerCount"

ImpostersOutOfRange(s, text) ==
  LET n == Number(Trim(text))
  IN  /\ ~IsCommand(text)
      /\ ~n.nan
      /\ (n.half < 2 \/ n.half > s.playerCount.half - 2)

(* C7: in stage askImposterCount a numeric text below 1 or above
   playerCount - 1 is answered with the out-of-range reply; the handler
   leaves the Session as it was and starts no draw, so nothing is assigned. *)
C7_ImposterCountOutOfRangeRejected ==
  \A s \in BotSessions :
    s.stage = "askImposterCount" =>
      \A text \in AllTexts :
        ImpostersOutOfRange(s, text) =>
          OnText(s, text) =
            [session |-> s, reply |-> "badImposterCount", draw |-> FALSE]

C7_Witness ==
  \E s \in BotSessions :
    /\ s.stage = "askImposterCount"
    /\ s.playerCount = Num(MAX_PLAYERS)
    /\ Numeral(MAX_PLAYERS) \in AllTexts
    /\ ImpostersOutOfRange(s, Numeral(MAX_PLAYERS))
    /\ ~ImpostersOutOfRange(s, Numeral(MAX_PLAYERS - 1))
    /\ OnText(s, Numeral(MAX_PLAYERS)).reply = "badImposterCount"

(* C8: during reveal, reveal:next while wordRevealed is false is answered
   with the show-first alert and leaves the Session as it was, at every
   reveal index; the web page offers no next button in that state. *)
C8_NextBeforeShowRejected ==
  /\ \A s \in BotSessions :
       (s.stage = "reveal" /\ ~s.wordRevealed) =>
         OnCallback(s, RevealNext) = [session |-> s, reply |-> "showFirst"]
  /\ (app.stage = "reveal" /\ ~app.wordRevealed) => ~ENABLED ClickNextPlayer

C8_Witness ==
  \E s \in BotSessions :
    /\ s.stage = "reveal"
    /\ ~s.wordRevealed
    /\ s.currentRevealIndex = Len(s.assignments) - 1
    /\ s.currentRevealIndex > 0

(* C9: during voting, vote:confirm while the current voter's entry is -1 is
   answered with the select-first alert and leaves the Session as it was, at
   every voter index; in the web client only the error text is set. *)
C9_ConfirmWithoutSelectionRejected ==
  /\ \A s \in BotSessions :
       (s.stage = "voting" /\ s.votes[s.currentVoterIndex + 1] = -1) =>
         OnCallback(s, VoteConfirm) = [session |-> s, reply |-> "selectFirst"]
  /\ (app.stage = "voting" /\ app.votes[app.currentVoterIndex + 1] = -1) =>
       handleConfirmVote(app) = [app EXCEPT !.error = "selectFirst"]

C9_Witness ==
  \E s \in BotSessions :
    /\ s.stage = "voting"
    /\ s.currentVoterIndex = Len(s.assignments) - 1
    /\ s.votes[s.currentVoterIndex + 1] = -1
    /\ s.votes[1] # -1

Targets(s) == 0..(Len(s.assignments) - 1)

(* C10: during voting, two selections in a row leave the Session equal to
   the one before them except that the current voter's entry is the last
   target selected: the other votes, the voter index and the stage are
   untouched, and selecting the same target twice equals selecting it once. *)
C10_LastSelectionWins ==
  /\ \A s \in BotSessions :
       s.stage = "voting" =>
         \A a \in Targets(s), b \in Targets(s) :
           LET once == OnCallback(s, VoteSelect(Numeral(a))).session
               twice == OnCallback(once, VoteSelect(Numeral(b))).session
           IN  /\ twice = [s EXCEPT !.votes[s.currentVoterIndex + 1] = b]
               /\ a = b => twice = once
  /\ app.stage = "voting" =>
       \A a \in Targets(app), b \in Targets(app) :
         LET once == handleSelectVote(app, a)
             twice == handleSelectVote(once, b)
         IN  /\ twice = [app EXCEPT !.votes[app.currentVoterIndex + 1] = b,
                                    !.error = "none"]
             /\ a = b => twice = once

C10_Witness ==
  \E s \in BotSessions :
    /\ s.stage = "voting"
    /\ s.currentVoterIndex = 1
    /\ s.votes = <<0, 2, 0 - 1>>

CursorsInRange(s) ==
  s.stage \in Played =>
    /\ 0 <= s.currentRevealIndex
    /\ 2 * s.currentRevealIndex <= s.playerCount.half - 2
    /\ 0 <= s.currentVoterIndex
    /\ 2 * s.currentVoterIndex <= s.playerCount.half - 2

CursorsMonotone(s, t) ==
  (s.assignments # <<>> /\ t.assignments = s.assignments) =>
    /\ t.currentRevealIndex >= s.currentRevealIndex
    /\ t.currentVoterIndex >= s.currentVoterIndex

(* C11: within one game the reveal cursor and the voter cursor never
   decrease from one state to the next, and in the stages reveal, voting and
   result both are at least 0 and at most playerCount - 1. *)
C11_CursorsMonotoneBounded ==
  /\ [](/\ \A s \in BotSessions : CursorsInRange(s)
        /\ CursorsInRange(app))
  /\ [][/\ \A c \in DOMAIN sessions \cap DOMAIN sessions' :
             CursorsMonotone(sessions[c], sessions'[c])
        /\ CursorsMonotone(app, app')]_vars

VotersFor(votes, t) == {i \in 1..Len(votes) : votes[i] = t}

Tally(votes, t) == Cardinality(VotersFor(votes, t))

TopTally(s) ==
  CHOOSE m \in {Tally(s.votes, t) : t \in Targets(s)} :
    \A t \in Targets(s) : Tally(s.votes, t) <= m

Accused(mostVoted) == {mostVoted[i].player.id : i \in 1..Len(mostVoted)}

TallyCorrect(s, summary) ==
  /\ Len(summary.voteSummary) = Len(s.assignments)
  /\ \A t \in Targets(s) :
       /\ summary.voteSummary[t + 1].player = s.assignments[t + 1]
       /\ summary.voteSummary[t + 1].votes = Tally(s.votes, t)
  /\ summary.highestVote = TopTally(s)
  /\ Accused(summary.mostVoted) = {t \in Targets(s) : Tally(s.votes, t) = TopTally(s)}
  /\ Len(summary.mostVoted) = Cardinality(Accused(summary.mostVoted))
  /\ \A i \in 1..Len(summary.mostVoted) :
       summary.mostVoted[i] \in
         {summary.voteSummary[t + 1] : t \in Targets(s)}

(* C12: in stage result the count reported for each player is the number
   of voters whose vote is that player's index, the highest vote is the
   maximum of these counts, and the most-voted players are exactly the
   players whose count equals it, each once; bot and web client. *)
C12_ResultTally ==
  /\ \A s \in BotSessions :
       s.stage = "result" => TallyCorrect(s, computeResultSummary(s))
  /\ app.stage = "result" => TallyCorrect(app, renderResult(app))

C12_Witness ==
  \E s \in BotSessions :
    /\ s.stage = "result"
    /\ s.votes = <<1, 1, 2>>
    /\ computeResultSummary(s).highestVote = 2
    /\ Accused(computeResultSummary(s).mostVoted) = {1}
    /\ computeResultSummary(s).voteSummary[1].votes = 0

C12_WitnessTie ==
  \E s \in BotSessions :
    /\ s.stage = "result"
    /\ s.votes = <<1, 2, 0>>
    /\ Accused(computeResultSummary(s).mostVoted) = {0, 1, 2}

RECURSIVE SumVotes(_)
SumVotes(voteSummary) ==
  IF voteSummary = <<>> THEN 0
  ELSE Head(voteSummary).votes + SumVotes(Tail(voteSummary))

ResultSound(s, summary) ==
  /\ \A i \in 1..Len(s.votes) :
       /\ 0 <= s.votes[i]
       /\ 2 * s.votes[i] < s.playerCount.half
  /\ 2 * Len(s.votes) = s.playerCount.half
  /\ 2 * SumVotes(summary.voteSummary) = s.playerCount.half
  /\ summary.highestVote >= 1
  /\ summary.mostVoted # <<>>

(* C13: in stage result there are playerCount votes, each a player index
   in [0, playerCount) and none -1, the per-player counts sum to
   playerCount, the highest vote is at least 1 and at least one player is
   reported as most voted; bot and web client. *)
C13_ResultVotesComplete ==
  /\ \A s \in BotSessions :
       s.stage = "result" => ResultSound(s, computeResultSummary(s))
  /\ app.stage = "result" => ResultSound(app, renderResult(app))

RevealEvents == {RevealShow, RevealNext}

VoteEvents == {VoteConfirm} \cup {VoteSelect(payload) : payload \in Payloads}

(* C14: a reveal event (show, next) handled while the stage is not reveal,
   and a vote event (select, confirm) handled while the stage is not voting,
   return the Session as it was; the web page offers the reveal buttons only
   in stage reveal and the vote buttons only in stage voting. *)
C14_StageMismatchIgnored ==
  /\ \A s \in BotSessions :
       /\ s.stage # "reveal" =>
            \A data \in RevealEvents : OnCallback(s, data).session = s
       /\ s.stage # "voting" =>
            \A data \in VoteEvents : OnCallback(s, data).session = s
  /\ app.stage # "reveal" =>
       ~ENABLED ClickRevealWord /\ ~ENABLED ClickNextPlayer
  /\ app.stage # "voting" =>
       /\ ~ENABLED ClickConfirmVote
       /\ \A index \in 0..(MAX_PLAYERS - 1) : ~ENABLED ClickSelectVote(index)

C14_Witness ==
  \E s \in BotSessions :
    /\ s.stage = "reveal"
    /\ s.wordRevealed
    /\ s.currentRevealIndex = 1
    /\ OnCallback(s, VoteSelect(Numeral(1))).reply = "ack"
    /\ OnCallback(s, VoteConfirm).reply = "ack"

PlainTexts == {text \in AllTexts \cup NameTexts : ~IsCommand(text)}

(* C15: a text message that is not a command, handled while the stage is
   reveal, voting or result, gets the use-newgame reply, starts no draw and
   returns the Session as it was; a text stopped as a command also returns
   it unchanged. *)
C15_TextInertDuringGame ==
  \A s \in BotSessions :
    s.stage \in Played =>
      /\ \A text \in PlainTexts :
           OnText(s, text) =
             [session |-> s, reply |-> "useNewGame", draw |-> FALSE]
      /\ \A text \in (AllTexts \cup NameTexts) \ PlainTexts :
           OnText(s, text) = [session |-> s, reply |-> "none", draw |-> FALSE]

C15_Witness ==
  \E s \in BotSessions :
    /\ s.stage = "voting"
    /\ s.currentVoterIndex = 1
    /\ Numeral(MIN_PLAYERS + 1) \in PlainTexts
    /\ Numeral(1) \in PlainTexts
    /\ <<"a", ",", "b">> \in PlainTexts
    /\ OnText(s, Numeral(1)).reply = "useNewGame"

DefaultNames(count) == [i \in 1..count |-> <<"P", " ">> \o Numeral(i)]

FreshSession ==
  [stage |-> "askPlayerCount",
   playerCount |-> Num(3),
   playerNames |-> DefaultNames(3),
   imposterCount |-> Num(1),
   assignments |-> <<>>,
   selectedWord |-> <<>>,
   currentRevealIndex |-> 0,
   wordRevealed |-> FALSE,
   currentVoterIndex |-> 0,
   votes |-> <<>>]

FreshApp ==
  [stage |-> "setup",
   playerCount |-> Num(5),
   playerNames |-> DefaultNames(5),
   imposterCount |-> Num(1),
   assignments |-> <<>>,
   selectedWord |-> <<>>,
   currentRevealIndex |-> 0,
   wordRevealed |-> FALSE,
   votes |-> <<>>,
   currentVoterIndex |-> 0,
   error |-> "none"]

ResetAccepted ==
  /\ (frontend = "bot" /\ ~loop.running) =>
       \A c \in Chats : ENABLED Start(c) /\ ENABLED NewGame(c)
  /\ (frontend = "web" /\ ~loop.running /\ app.stage # "setup") =>
       ENABLED ClickReset

BotResetFresh ==
  \A c \in Chats : (Start(c) \/ NewGame(c)) => sessions'[c] = FreshSession

(* C16 as stated: reset is accepted in every stage of a game and leaves a
   freshly created Session, in the bot and in the web client alike. *)
C16_ResetGivesFreshSession ==
  /\ []ResetAccepted
  /\ [][BotResetFresh /\ (ClickReset => app' = FreshApp)]_vars

(* C16, amended: in the bot /start and /newgame are accepted in every stage
   and leave a freshly created Session; in the web client reset is offered
   in reveal, voting and result and leaves a fresh setup page except that
   playerCount, playerNames and imposterCount keep their values. *)
C16_ResetKeepsWebSetup ==
  /\ []ResetAccepted
  /\ [][/\ BotResetFresh
        /\ ClickReset =>
             app' = [FreshApp EXCEPT !.playerCount = app.playerCount,
                                     !.playerNames = app.playerNames,
                                     !.imposterCount = app.imposterCount]]_vars

C16_Witness ==
  /\ app.stage = "setup"
  /\ app.playerNames[1] = <<"z">>
  /\ app.playerCount = Num(MIN_PLAYERS)
  /\ app.assignments = <<>>
  /\ app.selectedWord = <<>>

Only(map, c) == [d \in DOMAIN map \cap {c} |-> map[d]]

OwnSession(c) == getSession(Only(sessions, c), c)[c]

OthersUntouched(c) ==
  \A d \in TwoChats \ {c} :
    /\ Has(sessions', d) <=> Has(sessions, d)
    /\ Has(sessions, d) => sessions'[d] = sessions[d]

(* C17: every step taken for one chat id (start, newgame, a text, a
   callback, the assignment) leaves the Map entry of the other chat id as
   it was, present or absent, and the new Session of the chat addressed is
   the handler's result on that chat's own Session alone (a fresh one on
   first access). *)
C17_ChatsIndependent ==
  [][\A c \in TwoChats :
       /\ (Start(c) \/ NewGame(c)) =>
            OthersUntouched(c) /\ sessions'[c] = resetSession
       /\ \A text \in ChatTexts :
            TextMessage(c, text) =>
              /\ OthersUntouched(c)
              /\ sessions'[c] = OnText(OwnSession(c), text).session
       /\ \A data \in ChatCallbacks :
            CallbackQuery(c, data) =>
              /\ OthersUntouched(c)
              /\ sessions'[c] = OnCallback(OwnSession(c), data).session
       /\ DrawImposter(c) => sessions' = sessions
       /\ FinishAssign(c) =>
            /\ OthersUntouched(c)
            /\ \E word \in WORDS :
                 sessions'[c] = Assign(OwnSession(c), loop.imposterIndices, word)]_vars

C17_Witness ==
  /\ DOMAIN sessions = TwoChats
  /\ sessions["A"].stage = "voting"
  /\ sessions["A"].votes[1] = 1
  /\ sessions["B"].stage = "reveal"
  /\ sessions["B"].wordRevealed
  /\ sessions["B"].currentRevealIndex = 1

Frozen(s, t) ==
  /\ t.assignments = s.assignments
  /\ t.selectedWord = s.selectedWord
  /\ t.playerCount = s.playerCount
  /\ t.playerNames = s.playerNames
  /\ t.imposterCount = s.imposterCount

(* C18: from a state whose assignments are built, every step other than
   /start, /newgame (bot) or reset (web) leaves assignments, selectedWord,
   playerCount, playerNames and imposterCount as they were. *)
C18_AssignmentsFrozen ==
  [][/\ \A c \in DOMAIN sessions :
          sessions[c].assignments # <<>> =>
            \/ Start(c)
            \/ NewGame(c)
            \/ Has(sessions', c) /\ Frozen(sessions[c], sessions'[c])
     /\ app.assignments # <<>> => (ClickReset \/ Frozen(app, app'))]_vars

C18_Witness ==
  \/ \E s \in BotSessions :
       /\ s.stage = "voting"
       /\ s.currentVoterIndex = 2
       /\ s.votes[3] = 0
       /\ Len(s.assignments) = 3
       /\ s.selectedWord \in WORDS
  \/ /\ app.stage = "voting"
     /\ app.currentVoterIndex = 2
     /\ app.votes[3] = 0
     /\ Len(app.assignments) = 3
     /\ app.selectedWord \in WORDS

LiveSessions == BotSessions \cup (IF frontend = "web" THEN {app} ELSE {})

(* C19 as stated: in every reachable state of a Session, the setup stages
   and the state right after creation or reset included, assignments and
   votes both have playerCount entries. *)
C19_LengthsEqualPlayerCount ==
  \A s \in LiveSessions :
    /\ 2 * Len(s.assignments) = s.playerCount.half
    /\ 2 * Len(s.votes) = s.playerCount.half

(* C19, amended: assignments and votes always have the same length; before
   assignment (after creation or reset and through setup) both are empty
   while playerCount is at least 3; from reveal until reset both have as
   many entries as playerNames, which is playerCount rounded up to a whole
   number, hence playerCount itself in the bot. *)
C19_LengthsOnceAssigned ==
  /\ \A s \in LiveSessions :
       /\ Len(s.votes) = Len(s.assignments)
       /\ s.stage \notin Played =>
            Len(s.assignments) = 0 /\ s.playerCount.half >= 2 * MIN_PLAYERS
       /\ s.stage \in Played =>
            /\ Len(s.assignments) = Len(s.playerNames)
            /\ 2 * Len(s.assignments) \in
                 {s.playerCount.half, s.playerCount.half + 1}
  /\ \A s \in BotSessions :
       s.stage \in Played => 2 * Len(s.assignments) = s.playerCount.half

C19_Witness ==
  \E s \in BotSessions :
    /\ s.stage = "result"
    /\ s.playerCount = Num(MIN_PLAYERS)
    /\ Len(s.assignments) = MIN_PLAYERS
    /\ Len(s.votes) = MIN_PLAYERS

WellFormedTarget(payload, s) ==
  /\ payload # <<>>
  /\ AllDigits(payload)
  /\ DigitsValue(payload) < Len(s.assignments)

(* C20: during voting, vote:select whose target is missing, is not an
   integer or lies outside [0, playerCount) gets the invalid-choice reply
   and returns the Session as it was; a decimal index in range is recorded
   as the current voter's vote. *)
C20_InvalidTargetRejected ==
  \A s \in BotSessions :
    s.stage = "voting" =>
      /\ OnCallback(s, VOTE \o <<":">> \o SELECT) =
           [session |-> s, reply |-> "invalidChoice"]
      /\ \A payload \in Payloads :
           IF WellFormedTarget(payload, s)
           THEN OnCallback(s, VoteSelect(payload)) =
                  [session |->
                     [s EXCEPT !.votes[s.currentVoterIndex + 1] =
                                  DigitsValue(payload)],
                   reply |-> "selected"]
           ELSE OnCallback(s, VoteSelect(payload)) =
                  [session |-> s, reply |-> "invalidChoice"]

(* C21: during reveal, reveal:show on a hidden word sets wordRevealed and
   nothing else; on a shown word it gets the already-revealed reply and
   returns the Session as it was, so showing twice equals showing once; the
   web page offers the show button only while the word is hidden. *)
C21_ShowOnceOnly ==
  /\ \A s \in BotSessions :
       s.stage = "reveal" =>
         LET once == OnCallback(s, RevealShow)
             twice == OnCallback(once.session, RevealShow)
         IN  /\ ~s.wordRevealed =>
                  once = [session |-> [s EXCEPT !.wordRevealed = TRUE],
                          reply |-> "word"]
             /\ s.wordRevealed =>
                  once = [session |-> s, reply |-> "alreadyRevealed"]
             /\ twice = [session |-> once.session, reply |-> "alreadyRevealed"]
  /\ app.stage = "reveal" =>
       /\ handleRevealWord(app) = [app EXCEPT !.wordRevealed = TRUE]
       /\ handleRevealWord(handleRevealWord(app)) = handleRevealWord(app)
       /\ app.wordRevealed => ~ENABLED ClickRevealWord

C21_Witness ==
  \E s \in BotSessions :
    /\ s.stage = "reveal"
    /\ s.wordRevealed
    /\ s.currentRevealIndex = Len(s.assignments) - 1
    /\ OnCallback(s, RevealShow).reply = "alreadyRevealed"

Contains(text, part) ==
  \E i \in 1..(Len(text) - Len(part) + 1) :
    SubSeq(text, i, i + Len(part) - 1) = part

Reworded(s, word) ==
  [s EXCEPT
     !.selectedWord = word,
     !.assignments =
        [i \in 1..Len(s.assignments) |->
           IF s.assignments[i].isImposter THEN s.assignments[i]
           ELSE [s.assignments[i] EXCEPT !.word = word]]]

ImposterNotice == <<"youAreTheImposter">>

RevealKeepsSecret(s, text, textWith) ==
  LET player == s.assignments[s.currentRevealIndex + 1]
  IN  /\ player.isImposter =>
           /\ \A word \in WORDS : textWith[word] = text
           /\ ~Contains(player.name, s.selectedWord) =>
                ~Contains(text, s.selectedWord)
           /\ s.wordRevealed =>
                Contains(text, ImposterNotice) /\ Contains(text, <<"?", "?", "?">>)
      /\ ~player.isImposter =>
           /\ ~Contains(text, ImposterNotice)
           /\ s.wordRevealed => Contains(text, s.selectedWord)
           /\ \A word \in WORDS :
                (word # s.selectedWord /\ s.wordRevealed) =>
                  textWith[word] # text

BotRevealText(s) == buildRevealMessage(s).text

(* C22 as stated: the reveal card of an imposter never contains
   selectedWord; bot and web. *)
C22_ImposterOutputOmitsWord ==
  /\ \A s \in BotSessions :
       (s.stage = "reveal" /\ s.assignments[s.currentRevealIndex + 1].isImposter) =>
         ~Contains(BotRevealText(s), s.selectedWord)
  /\ (/\ app.stage = "reveal"
      /\ app.currentRevealIndex < Len(app.assignments)
      /\ app.assignments[app.currentRevealIndex + 1].isImposter) =>
       ~Contains(renderReveal(app), app.selectedWord)

(* C22, amended: the reveal card of an imposter shows the imposter notice and ???
   in place of the word, contains selectedWord nowhere outside the player's
   own name, and is the same card whatever word the game has; the card of a
   non-imposter shows selectedWord and no imposter notice; bot and web. *)
C22_ImposterNeverSeesWord ==
  /\ \A s \in BotSessions :
       s.stage = "reveal" =>
         RevealKeepsSecret(s, BotRevealText(s),
                           [word \in WORDS |-> BotRevealText(Reworded(s, word))])
  /\ app.stage = "reveal" =>
       RevealKeepsSecret(app, renderReveal(app),
                         [word \in WORDS |-> renderReveal(Reworded(app, word))])

C22_Witness ==
  \E s \in BotSessions :
    /\ s.stage = "reveal"
    /\ s.wordRevealed
    /\ s.assignments[s.currentRevealIndex + 1].isImposter
    /\ s.assignments[s.currentRevealIndex + 1].name = <<"w", "1">>
    /\ s.selectedWord = <<"w", "2">>
    /\ s.assignments[1].word = <<"w", "2">>
    /\ Contains(BotRevealText(s), ImposterNotice)

LastIndex(s) == Len(s.assignments) - 1

ShownOnlyByShow(s, t) ==
  /\ (t.wordRevealed /\ ~s.wordRevealed) =>
       s.stage = "reveal" /\ t = [s EXCEPT !.wordRevealed = TRUE]
  /\ (t.currentRevealIndex # s.currentRevealIndex
        \/ t.assignments # s.assignments) => ~t.wordRevealed

(* C23: during reveal with the word shown, next at the last index sets the
   stage to voting and the voter cursor to 0 and leaves the reveal cursor
   (the web client also hides the word again); at any other index it adds 1
   to the reveal cursor and hides the word; nothing else changes.
   wordRevealed turns true only by a show accepted for the current player,
   and is false right after every move of the reveal cursor. *)
C23_NextAdvancesReveal ==
  /\ [](/\ \A s \in BotSessions :
             (s.stage = "reveal" /\ s.wordRevealed) =>
               /\ LastIndex(s) = IntOf(s.playerCount) - 1
               /\ OnCallback(s, RevealNext) =
                    IF s.currentRevealIndex = LastIndex(s)
                    THEN [session |-> [s EXCEPT !.stage = "voting",
                                                !.currentVoterIndex = 0],
                          reply |-> "ballot"]
                    ELSE [session |->
                            [s EXCEPT !.currentRevealIndex = @ + 1,
                                      !.wordRevealed = FALSE],
                          reply |-> "revealPrompt"]
        /\ (app.stage = "reveal" /\ app.wordRevealed) =>
             handleNextPlayer(app) =
               IF app.currentRevealIndex = LastIndex(app)
               THEN [app EXCEPT !.stage = "voting",
                                !.currentVoterIndex = 0,
                                !.wordRevealed = FALSE]
               ELSE [app EXCEPT !.currentRevealIndex = @ + 1,
                                !.wordRevealed = FALSE])
  /\ [][/\ \A c \in DOMAIN sessions \cap DOMAIN sessions' :
             ShownOnlyByShow(sessions[c], sessions'[c])
        /\ ShownOnlyByShow(app, app')]_vars

C23_Witness ==
  \E s \in BotSessions :
    /\ s.stage = "reveal"
    /\ s.wordRevealed
    /\ s.currentRevealIndex = LastIndex(s)
    /\ s.currentRevealIndex = 2
    /\ OnCallback(s, RevealNext).session.stage = "voting"
    /\ OnCallback(s, RevealNext).session.currentRevealIndex = 2

BallotsAheadEmpty(s) ==
  s.stage = "voting" =>
    /\ \A i \in 1..Len(s.votes) :
         i > s.currentVoterIndex + 1 => s.votes[i] = -1
    /\ \A i \in 1..Len(s.votes) :
         i < s.currentVoterIndex + 1 => s.votes[i] # -1

(* C24: during voting with a selection made, confirm at the last voter
   sets the stage to result and leaves the voter cursor and the votes; at
   any other voter it adds 1 to the voter cursor and leaves the votes, and
   the entry of the new voter is -1; nothing else changes. *)
C24_ConfirmAdvancesVoting ==
  /\ \A s \in BotSessions :
       /\ BallotsAheadEmpty(s)
       /\ (s.stage = "voting" /\ s.votes[s.currentVoterIndex + 1] # -1) =>
            LET out == OnCallback(s, VoteConfirm)
            IN  IF s.currentVoterIndex = LastIndex(s)
                THEN out = [session |-> [s EXCEPT !.stage = "result"],
                            reply |-> "result"]
                ELSE /\ out = [session |-> [s EXCEPT !.currentVoterIndex = @ + 1],
                               reply |-> "ballot"]
                     /\ out.session.votes[out.session.currentVoterIndex + 1] = -1
  /\ BallotsAheadEmpty(app)
  /\ (app.stage = "voting" /\ app.votes[app.currentVoterIndex + 1] # -1) =>
       LET next == handleConfirmVote(app)
       IN  IF app.currentVoterIndex = LastIndex(app)
           THEN next = [app EXCEPT !.stage = "result"]
           ELSE /\ next = [app EXCEPT !.currentVoterIndex = @ + 1]
                /\ next.votes[next.currentVoterIndex + 1] = -1

C24_Witness ==
  \E s \in BotSessions :
    /\ s.stage = "voting"
    /\ s.currentVoterIndex = 1
    /\ s.votes = <<2, 2, 0 - 1>>
    /\ OnCallback(s, VoteConfirm).session.currentVoterIndex = 2

FreshReveal(s, t) ==
  (s.stage # "reveal" /\ t.stage = "reveal") =>
    /\ s.stage \in {"askImposterCount", "setup"}
    /\ loop.running /\ ~loop'.running
    /\ 2 * Len(t.votes) = t.playerCount.half
    /\ \A i \in 1..Len(t.votes) : t.votes[i] = -1
    /\ t.currentRevealIndex = 0
    /\ t.currentVoterIndex = 0
    /\ ~t.wordRevealed

(* C25: the handler of an accepted imposter count (bot) or of start game
   (web) runs to its end without any other event and leaves the stage
   reveal with playerCount votes, all -1, both cursors 0 and the word
   hidden; the stage reveal is entered in no other way. *)
C25_AssignmentStartsReveal ==
  /\ [](loop.running =>
          /\ ~ENABLED ClickReset
          /\ \A c \in Chats : ~ENABLED NewGame(c)
          /\ IF loop.owner = "web" THEN app.stage = "setup"
             ELSE sessions[loop.owner].stage = "askImposterCount")
  /\ [][/\ \A c \in DOMAIN sessions \cap DOMAIN sessions' :
             FreshReveal(sessions[c], sessions'[c])
        /\ FreshReveal(app, app')]_vars

Strip(str) ==
  LET inked == {i \in 1..Len(str) : str[i] \notin {" ", "\n"}}
  IN  IF inked = {} THEN <<>>
      ELSE SubSeq(str,
                  CHOOSE i \in inked : \A j \in inked : i <= j,
                  CHOOSE i \in inked : \A j \in inked : i >= j)

RECURSIVE Pieces(_, _, _)
Pieces(rest, piece, done) ==
  IF rest = <<>> THEN Append(done, piece)
  ELSE IF Head(rest) \in {",", "\n"}
  THEN Pieces(Tail(rest), <<>>, Append(done, piece))
  ELSE Pieces(Tail(rest), Append(piece, Head(rest)), done)

Tokens(text) ==
  LET pieces == Pieces(text, <<>>, <<>>)
  IN  SelectSeq([i \in 1..Len(pieces) |-> Strip(pieces[i])],
                LAMBDA piece : piece # <<>>)

NamesAfter(s, text) ==
  LET tokens == Tokens(text)
  IN  [i \in 1..IntOf(s.playerCount) |->
         IF tokens = <<>> THEN s.playerNames[i]
         ELSE IF i <= Len(tokens) THEN tokens[i]
         ELSE DefaultNames(i)[i]]

(* C26: in stage collectNames every text that is not a command is
   accepted: the stage becomes askImposterCount and playerNames gets exactly
   playerCount entries, token i at position i while tokens last, the default
   name of the position after that, tokens beyond playerCount dropped; with
   no token at all the previous names stay. *)
C26_NamesStep ==
  \A s \in BotSessions :
    s.stage = "collectNames" =>
      /\ Len(s.playerNames) = IntOf(s.playerCount)
      /\ \A text \in PlainTexts :
           OnText(s, text) =
             [session |-> [s EXCEPT !.stage = "askImposterCount",
                                    !.playerNames = NamesAfter(s, text)],
              reply |-> "askImposterCount",
              draw |-> FALSE]

C26_Witness ==
  \E s \in BotSessions :
    /\ s.stage = "askImposterCount"
    /\ s.playerCount = Num(MAX_PLAYERS)
    /\ s.playerNames[2] = <<"w", "1">>
    /\ s.playerNames[5] = <<"e">>
    /\ s.playerNames[MAX_PLAYERS] = <<"P", " ", "1", "2">>


NamesCarried(s, t) ==
  \A i \in 1..Len(t.playerNames) :
    t.playerNames[i] = IF i <= Len(s.playerNames) THEN s.playerNames[i]
                       ELSE DefaultNames(i)[i]

NoBlankName(s) ==
  /\ \A i \in 1..Len(s.playerNames) : Strip(s.playerNames[i]) # <<>>
  /\ \A i \in 1..Len(s.assignments) : Strip(s.assignments[i].name) # <<>>

(* C27: in every reachable state playerNames has exactly playerCount
   entries; an accepted player count n (bot text in askPlayerCount, web
   count button or count field) keeps the names below min(old, n) and gives
   every new position its default name; once the roles are assigned no name
   is blank. *)
C27_NamesMatchPlayerCount ==
  /\ \A s \in LiveSessions : 2 * Len(s.playerNames) = s.playerCount.half
  /\ \A s \in BotSessions :
       s.stage = "askPlayerCount" =>
         \A text \in PlainTexts :
           LET t == OnText(s, text).session
           IN  t.stage = "collectNames" => NamesCarried(s, t)
  /\ (frontend = "web" /\ app.stage = "setup") =>
       \A value \in NumberInputs \cup SetupNumberInputs :
         ~IsNaN(Number(value)) =>
           NamesCarried(app, adjustPlayerCount(app, Number(value)))
  /\ \A s \in LiveSessions : s.stage \in Played => NoBlankName(s)


Seated(s) ==
  /\ \A i \in 0..(MAX_PLAYERS + 1) :
       2 * i < s.playerCount.half =>
         /\ i + 1 <= Len(s.assignments)
         /\ i + 1 <= Len(s.playerNames)
         /\ s.assignments[i + 1].id = i
         /\ s.assignments[i + 1].name = s.playerNames[i + 1]
  /\ \A i, j \in 1..Len(s.assignments) :
       s.assignments[i].id = s.assignments[j].id => i = j

SeatsKept(s, t) ==
  (s.stage \in Played /\ t.stage \in Played) =>
    /\ t.assignments = s.assignments
    /\ t.playerNames = s.playerNames

(* C28: once the roles are assigned, for every i in [0, playerCount) the
   i-th assignment has index i and the name playerNames[i] had when the
   roles were assigned; no two assignments share an index; the list is the
   same list, in the same order, for the rest of the game. *)
C28_AssignmentsFollowSeats ==
  /\ [](\A s \in LiveSessions : s.stage \in Played => Seated(s))
  /\ [][/\ \A c \in DOMAIN sessions \cap DOMAIN sessions' :
             SeatsKept(sessions[c], sessions'[c])
        /\ SeatsKept(app, app')]_vars

C28_Witness ==
  \E s \in LiveSessions :
    /\ s.stage = "result"
    /\ Len(s.assignments) = MIN_PLAYERS
    /\ s.assignments[MIN_PLAYERS].id = MIN_PLAYERS - 1
    /\ s.assignments[MIN_PLAYERS].name = <<"c">>
    /\ s.assignments[2].name = <<"w", "1">>


LoopSession == IF loop.owner = "web" THEN app ELSE sessions[loop.owner]

Drawable ==
  IF loop.owner = "web" THEN Len(app.playerNames)
  ELSE IntOf(sessions[loop.owner].playerCount)

LoopEntered ==
  loop.running =>
    /\ 2 * MIN_IMPOSTERS <= LoopSession.imposterCount.half
    /\ LoopSession.imposterCount.half < 2 * Drawable
    /\ loop.imposterIndices \subseteq 0..(Drawable - 1)
    /\ 2 * (Cardinality(loop.imposterIndices) - 1)
         < LoopSession.imposterCount.half

LoopLeft ==
  (loop.running /\ ~loop'.running) =>
    2 * Cardinality(loop.imposterIndices) >= LoopSession.imposterCount.half

(* C29: the loop that draws the imposter indices is entered only with
   1 <= imposterCount < number of players, so never with more imposters than
   drawable indices; every index it holds lies in [0, number of players);
   it never holds more indices than it needs; under a fair random source it
   ends, and it ends holding imposterCount distinct indices (the next
   integer when the web client's imposterCount is fractional). *)
C29_DrawLoopTerminates ==
  /\ []LoopEntered
  /\ [][LoopLeft]_vars
  /\ (loop.running ~> ~loop.running)

C29_Witness ==
  /\ loop.running
  /\ LoopSession.imposterCount = Num(MAX_PLAYERS - 1)
  /\ Cardinality(loop.imposterIndices) = MAX_PLAYERS - 2


Rank(stage) ==
  CASE stage = "askPlayerCount" -> 0
    [] stage = "collectNames" -> 1
    [] stage \in {"askImposterCount", "setup"} -> 2
    [] stage = "reveal" -> 3
    [] stage = "voting" -> 4
    [] stage = "result" -> 5

StageForward(s, t) ==
  Rank(t.stage) \in {Rank(s.stage), Rank(s.stage) + 1}

RevealInOrder(s, t) ==
  /\ (s.stage # "reveal" /\ t.stage = "reveal") =>
       t.currentRevealIndex = 0 /\ ~t.wordRevealed
  /\ (s.stage = "reveal" /\ t.stage = "reveal") =>
       /\ t.currentRevealIndex \in {s.currentRevealIndex, s.currentRevealIndex + 1}
       /\ t.currentRevealIndex = s.currentRevealIndex =>
            (s.wordRevealed => t.wordRevealed)
       /\ t.currentRevealIndex = s.currentRevealIndex + 1 =>
            s.wordRevealed /\ ~t.wordRevealed
  /\ (s.stage = "reveal" /\ t.stage = "voting") =>
       /\ s.wordRevealed
       /\ 2 * (s.currentRevealIndex + 1) >= s.playerCount.half
       /\ t.currentVoterIndex = 0

VoteInOrder(s, t) ==
  /\ (s.stage = "voting" /\ t.stage = "voting") =>
       /\ t.currentVoterIndex \in {s.currentVoterIndex, s.currentVoterIndex + 1}
       /\ t.currentVoterIndex = s.currentVoterIndex + 1 =>
            s.votes[s.currentVoterIndex + 1] # -1
  /\ (s.stage = "voting" /\ t.stage = "result") =>
       /\ 2 * (s.currentVoterIndex + 1) >= s.playerCount.half
       /\ s.votes[s.currentVoterIndex + 1] # -1

InOrder(s, t) ==
  StageForward(s, t) /\ RevealInOrder(s, t) /\ VoteInOrder(s, t)

(* C30: every step other than a reset (/start, /newgame, the web reset
   button) leaves the stage where it is or moves it to the next one of
   askPlayerCount, collectNames, askImposterCount (web: setup), reveal,
   voting, result; the reveal starts at player 0 with the word hidden, moves
   on one player at a time and only from a shown word, so voting is entered
   only after show and next for every player in increasing order; the voter
   cursor moves on one voter at a time and only from a recorded vote, so
   result is entered only after a confirm for every voter in increasing
   order. *)
C30_StageOrder ==
  [][\/ \E chatId \in Chats : Start(chatId) \/ NewGame(chatId)
     \/ ClickReset
     \/ /\ \A chatId \in DOMAIN sessions' :
             InOrder(getSession(sessions, chatId)[chatId], sessions'[chatId])
        /\ InOrder(app, app')]_vars

C30_Witness ==
  \E s \in BotSessions :
    /\ s.stage = "result"
    /\ s.wordRevealed
    /\ s.currentRevealIndex = MIN_PLAYERS - 1
    /\ s.currentVoterIndex = MIN_PLAYERS - 1
    /\ \A i \in 1..Len(s.votes) : s.votes[i] # -1


Progress(s, t) ==
  \/ Rank(t.stage) = Rank(s.stage) + 1
  \/ /\ t.stage = s.stage
     /\ \/ t.currentRevealIndex = s.currentRevealIndex + 1
        \/ t.currentVoterIndex = s.currentVoterIndex + 1
        \/ ~s.wordRevealed /\ t.wordRevealed
        \/ /\ s.stage = "voting"
           /\ t.votes[s.currentVoterIndex + 1] # s.votes[s.currentVoterIndex + 1]

BotUnstuck(s) ==
  \/ \E text \in PlainTexts :
       LET out == OnText(s, text)
       IN  out.draw \/ Progress(s, out.session)
  \/ \E data \in CallbackData : Progress(s, OnCallback(s, data).session)

WebUnstuck ==
  CASE app.stage = "setup" -> StartGame(app).draw
    [] app.stage = "reveal" ->
         IF app.wordRevealed
         THEN ENABLED ClickNextPlayer /\ Progress(app, handleNextPlayer(app))
         ELSE ENABLED ClickRevealWord /\ Progress(app, handleRevealWord(app))
    [] app.stage = "voting" ->
         IF app.votes[app.currentVoterIndex + 1] = -1
         THEN \E index \in 0..(MAX_PLAYERS - 1) :
                /\ ENABLED ClickSelectVote(index)
                /\ Progress(app, handleSelectVote(app, index))
         ELSE ENABLED ClickConfirmVote /\ Progress(app, handleConfirmVote(app))
    [] OTHER -> TRUE

Unstuck ==
  ~loop.running =>
    /\ \A s \in BotSessions : s.stage # "result" => BotUnstuck(s)
    /\ frontend = "bot" => \A chatId \in Chats : ENABLED NewGame(chatId)
    /\ frontend = "web" =>
         /\ WebUnstuck
         /\ app.stage # "setup" => ENABLED ClickReset

Finished ==
  IF frontend = "web" THEN app.stage = "result"
  ELSE \A chatId \in Chats :
         Has(sessions, chatId) /\ sessions[chatId].stage = "result"

(* C31: in every state between two events whose stage is not result some
   offered input is accepted and makes progress (the stage, a cursor,
   wordRevealed or the current ballot moves on, or the draw is started);
   reset is accepted in every stage (web: the reset button is there in every
   stage but setup); and when accepted inputs keep arriving and no reset
   occurs the game reaches result and stays there. *)
C31_NeverStuck ==
  /\ []Unstuck
  /\ <>[]Finished

C31_Witness ==
  /\ Finished
  /\ frontend = "bot"
  /\ \A chatId \in Chats : sessions[chatId].votes[MIN_PLAYERS] = MIN_PLAYERS - 1


ValidBallot(s, vote) ==
  /\ vote \in 0..(Len(s.assignments) - 1)
  /\ 2 * vote < s.playerCount.half

BallotsInOrder(s) ==
  \A i \in 0..(Len(s.votes) - 1) :
    /\ i < s.currentVoterIndex => ValidBallot(s, s.votes[i + 1])
    /\ i > s.currentVoterIndex => s.votes[i + 1] = -1
    /\ i = s.currentVoterIndex =>
         s.votes[i + 1] = -1 \/ ValidBallot(s, s.votes[i + 1])

OnlyOwnBallot(s, t) ==
  /\ [t EXCEPT !.votes = s.votes] = s
  /\ Len(t.votes) = Len(s.votes)
  /\ \A i \in 0..(Len(s.votes) - 1) :
       i # s.currentVoterIndex => t.votes[i + 1] = s.votes[i + 1]

(* C32: in stage voting every entry of votes before the current voter is a
   valid player index, every entry after the current voter is -1 and the
   current voter's entry is -1 or a valid index; a select, whatever its
   target, changes no entry but the current voter's and nothing else of the
   Session (the web client also clears its error text), and no step of the
   voting changes an entry before the current voter. *)
SelectsOwnBallot ==
  /\ \A s \in LiveSessions :
       s.stage = "voting" =>
         /\ s.currentVoterIndex < Len(s.votes)
         /\ BallotsInOrder(s)
  /\ \A s \in BotSessions :
       s.stage = "voting" =>
         \A payload \in Payloads :
           OnlyOwnBallot(s, OnCallback(s, VoteSelect(payload)).session)
  /\ (frontend = "web" /\ app.stage = "voting") =>
       \A index \in 0..(Len(app.assignments) - 1) :
         OnlyOwnBallot([app EXCEPT !.error = "none"], handleSelectVote(app, index))

ConfirmedKept(s, t) ==
  (s.stage = "voting" /\ t.stage \in {"voting", "result"}) =>
    \A i \in 0..(Len(s.votes) - 1) :
      i < s.currentVoterIndex => t.votes[i + 1] = s.votes[i + 1]

C32_BallotsInOrder ==
  /\ []SelectsOwnBallot
  /\ [][/\ \A c \in DOMAIN sessions \cap DOMAIN sessions' :
             ConfirmedKept(sessions[c], sessions'[c])
        /\ ConfirmedKept(app, app')]_vars

C32_Witness ==
  \E s \in BotSessions :
    /\ s.stage = "voting"
    /\ s.currentVoterIndex = 1
    /\ s.votes = <<2, 0, -1>>


Offered(keyboard) ==
  UNION {{keyboard[r][b].data : b \in 1..Len(keyboard[r])} :
           r \in 1..Len(keyboard)}

SelfVoteCounts(s, t, summary) ==
  /\ \/ /\ t.stage = "voting"
        /\ t.currentVoterIndex = s.currentVoterIndex + 1
     \/ /\ t.stage = "result"
        /\ summary.voteSummary[s.currentVoterIndex + 1].votes
             = Tally(t.votes, s.currentVoterIndex)
        /\ summary.voteSummary[s.currentVoterIndex + 1].votes >= 1
  /\ t.votes[s.currentVoterIndex + 1] = s.currentVoterIndex

(* C33: in stage voting the ballot offers the current voter as a target like
   every other player; selecting oneself is accepted and recorded as the
   current voter's vote; it can then be confirmed; and at the result it
   counts in the tally of that player. *)
C33_SelfVoteAllowed ==
  /\ \A s \in BotSessions :
       s.stage = "voting" =>
         LET self == s.currentVoterIndex
             out == OnCallback(s, VoteSelect(Numeral(self)))
             done == OnCallback(out.session, VoteConfirm).session
         IN  /\ Offered(buildVoteKeyboard(s))
                  = {VoteSelect(Numeral(t)) : t \in Targets(s)} \cup {VoteConfirm}
             /\ out.reply = "selected"
             /\ out.session = [s EXCEPT !.votes[self + 1] = self]
             /\ SelfVoteCounts(out.session, done, computeResultSummary(done))
  /\ (frontend = "web" /\ app.stage = "voting") =>
       LET self == app.currentVoterIndex
           picked == handleSelectVote(app, self)
           done == handleConfirmVote(picked)
       IN  /\ \A t \in Targets(app) : ENABLED ClickSelectVote(t)
           /\ picked = [app EXCEPT !.votes[self + 1] = self, !.error = "none"]
           /\ SelfVoteCounts(picked, done, renderResult(done))

C33_Witness ==
  \E s \in BotSessions :
    /\ s.stage = "result"
    /\ s.votes = <<0, 1, 2>>
    /\ \A t \in Targets(s) : computeResultSummary(s).voteSummary[t + 1].votes = 1


TwiceIsOnce(s, data, refusals) ==
  LET one == OnCallback(s, data)
      two == OnCallback(one.session, data)
  IN  /\ one.session # s =>
           /\ two.session = one.session
           /\ two.reply \in refusals
      /\ one.session.currentRevealIndex - s.currentRevealIndex \in {0, 1}
      /\ one.session.currentVoterIndex - s.currentVoterIndex \in {0, 1}
      /\ two.session.currentRevealIndex = one.session.currentRevealIndex
      /\ two.session.currentVoterIndex = one.session.currentVoterIndex
      /\ two.session.stage = one.session.stage

(* C34: a next delivered twice in a row during the reveal, or a confirm
   twice in a row during the voting, moves the cursor by at most one: when
   the first is accepted the second is refused (show first / select first /
   not in this stage) and leaves the Session as the first left it.  In the
   web client the next button is gone after an accepted next, and a second
   confirm only sets the error text. *)
C34_DuplicateHarmless ==
  /\ \A s \in BotSessions :
       /\ s.stage = "reveal" =>
            TwiceIsOnce(s, RevealNext, {"showFirst", "notInReveal"})
       /\ s.stage = "voting" =>
            TwiceIsOnce(s, VoteConfirm, {"selectFirst", "ack"})
  /\ (frontend = "web" /\ app.stage = "reveal" /\ app.wordRevealed) =>
       LET one == handleNextPlayer(app)
       IN  ~(one.stage = "reveal" /\ one.wordRevealed)
  /\ (frontend = "web" /\ app.stage = "voting"
        /\ app.votes[app.currentVoterIndex + 1] # -1) =>
       LET one == handleConfirmVote(app)
       IN  one.stage = "voting" =>
             /\ one.currentVoterIndex = app.currentVoterIndex + 1
             /\ handleConfirmVote(one) = [one EXCEPT !.error = "selectFirst"]

C34_Witness ==
  \E s \in BotSessions :
    /\ s.stage = "voting"
    /\ s.currentVoterIndex = MIN_PLAYERS - 1
    /\ s.votes[MIN_PLAYERS] = -1
    /\ s.votes[MIN_PLAYERS - 1] = 0
    /\ OnCallback(s, VoteConfirm).reply = "selectFirst"


SessionSound(s) ==
  /\ PlayerCountInRange(s)
  /\ ImposterCountInRange(s)
  /\ 2 * Len(s.playerNames) = s.playerCount.half
  /\ WordsConsistent(s)
  /\ CursorsInRange(s)
  /\ ExactImposters(s)
  /\ s.stage \in Played =>
       /\ 2 * Len(s.assignments) = s.playerCount.half
       /\ 2 * Len(s.votes) = s.playerCount.half
  /\ s.stage = "voting" => BallotsInOrder(s)

AwaitReturned ==
  \E i \in 1..Len(suspended) : suspended' = Resumed(suspended, i)

OneHandlerRan ==
  \/ sessions' = sessions
  \/ \E chatId \in Chats :
       LET map == getSession(sessions, chatId)
       IN  \/ sessions' = Put(sessions, chatId, resetSession)
           \/ \E text \in AsyncTexts :
                sessions' = Put(map, chatId, OnText(map[chatId], text).session)
           \/ \E data \in AsyncCallbacks :
                sessions' = Put(map, chatId, OnCallback(map[chatId], data).session)
           \/ /\ loop.running
              /\ \E word \in WORDS :
                   sessions' = Put(sessions, chatId,
                                   Assign(sessions[chatId], loop.imposterIndices, word))

(* C35: in the bot a handler reads, checks and writes the Session before its
   first awaited transport call and writes nothing once an await has
   returned; so with handlers of one chat suspended at their awaits and
   resumed in any order, a /newgame among them, every change of the sessions
   Map is the whole effect of one handler on the Map as it then is (the
   events processed one at a time, in the order their handlers started),
   and the Session invariants hold at every await point. *)
C35_AwaitsKeepSession ==
  /\ [](\A s \in BotSessions : SessionSound(s))
  /\ [][AwaitReturned => sessions' = sessions]_vars
  /\ [][~AwaitReturned => OneHandlerRan]_vars

C35_Witness ==
  /\ Len(suspended) = 2
  /\ suspended[1].awaits = 3
  /\ suspended[2].awaits = 1
  /\ \A chatId \in Chats : Has(sessions, chatId) /\ sessions[chatId] = resetSession


AfterText(map, chatId, text) ==
  LET got == getSession(map, chatId)
  IN  Put(got, chatId, OnText(got[chatId], text).session)

AfterCallback(map, chatId, data) ==
  IF TouchesSession(data)
  THEN LET got == getSession(map, chatId)
       IN  Put(got, chatId, OnCallback(got[chatId], data).session)
  ELSE map

CreatedAsClaimed(s) ==
  /\ s.stage = "askPlayerCount"
  /\ s.playerCount = Num(MIN_PLAYERS)
  /\ s.playerNames = <<createDefaultName(0), createDefaultName(1), createDefaultName(2)>>
  /\ s.imposterCount = Num(1)
  /\ s.assignments = <<>>
  /\ s.votes = <<>>

CreatedFresh(map, chatId) ==
  LET got == getSession(map, chatId)
  IN  /\ DOMAIN got = DOMAIN map \cup {chatId}
      /\ CreatedAsClaimed(got[chatId])
      /\ \A c \in DOMAIN map : got[c] = map[c]

NeverIdle ==
  /\ \A s \in BotSessions :
       s.stage \in {"askPlayerCount", "collectNames", "askImposterCount",
                    "reveal", "voting", "result"}
  /\ app.stage \in {"setup", "reveal", "voting", "result"}

(* C36 as stated: any event, text or callback, for a chat that has no       *)
(* Session leaves the store with a Session for that chat, made fresh in     *)
(* askPlayerCount (3 players, three default names, 1 imposter, no           *)
(* assignments, no votes) before the event is handled; an access to a chat  *)
(* that has a Session leaves the store as it is; no stage is ever 'idle'.   *)
C36_AnyEventCreatesSession ==
  /\ NeverIdle
  /\ \A chatId \in Chats \cup TwoChats :
       IF Has(sessions, chatId)
       THEN getSession(sessions, chatId) = sessions
       ELSE /\ CreatedFresh(sessions, chatId)
            /\ \A text \in Texts : Has(AfterText(sessions, chatId, text), chatId)
            /\ \A data \in CallbackData :
                 Has(AfterCallback(sessions, chatId, data), chatId)

FirstAccess ==
  /\ DOMAIN sessions \subseteq DOMAIN sessions'
  /\ Cardinality(DOMAIN sessions' \ DOMAIN sessions) <= 1
  /\ \A chatId \in DOMAIN sessions' \ DOMAIN sessions :
       \/ sessions'[chatId] = resetSession
       \/ \E text \in Texts :
            sessions'[chatId] = OnText(resetSession, text).session

(* C36, amended: a text that reaches bot.on('text') and a callback whose    *)
(* data starts with reveal: or vote: create, for a chat that has no         *)
(* Session, exactly one fresh Session in askPlayerCount (3 players, three   *)
(* default names, 1 imposter, no assignments, no votes) and handle the      *)
(* event on it; a callback with any other data leaves the store without a   *)
(* Session for the chat; an access to a chat that has a Session leaves the  *)
(* store as it is; no stage is ever 'idle'.                                 *)
C36_CreatedOnFirstAccess ==
  /\ [](/\ NeverIdle
        /\ \A chatId \in Chats \cup TwoChats :
             IF Has(sessions, chatId)
             THEN getSession(sessions, chatId) = sessions
             ELSE /\ CreatedFresh(sessions, chatId)
                  /\ \A text \in Texts :
                       AfterText(sessions, chatId, text)
                         = Put(sessions, chatId, OnText(resetSession, text).session)
                  /\ \A data \in CallbackData :
                       AfterCallback(sessions, chatId, data)
                         = IF TouchesSession(data)
                           THEN Put(sessions, chatId, resetSession)
                           ELSE sessions)
  /\ [][FirstAccess]_vars

C36_Witness ==
  /\ frontend = "bot"
  /\ \E chatId \in Chats :
       /\ Has(sessions, chatId)
       /\ sessions[chatId].stage = "voting"
       /\ sessions[chatId].currentVoterIndex = 1
       /\ AfterCallback(sessions, chatId, RevealNext) = sessions


SameCursors(s, state) ==
  /\ s.stage = state.stage
  /\ s.currentRevealIndex = state.currentRevealIndex
  /\ s.currentVoterIndex = state.currentVoterIndex
  /\ s.votes = state.votes
  /\ s.assignments = state.assignments

SameTally(s, state) ==
  s.stage = "result" => computeResultSummary(s) = renderResult(state)

(* C37 as stated: started from the same assignments and given the same     *)
(* requests (show, next, select, confirm; accepted or rejected), the bot   *)
(* and the web client have the same stage, reveal cursor, wordRevealed,    *)
(* voter cursor and votes after every step, and the same tally in result.  *)
C37_SameMachine ==
  frontend = "pair" =>
    \A s \in BotSessions :
      /\ SameCursors(s, app)
      /\ s.wordRevealed = app.wordRevealed
      /\ SameTally(s, app)

(* C37, amended: started from the same assignments and given the same      *)
(* requests, the bot and the web client have the same stage, reveal        *)
(* cursor, voter cursor and votes after every step, the same wordRevealed  *)
(* after every step taken in the reveal stage that does not leave it, and  *)
(* the same tally in result; from the last accepted next on (voting and    *)
(* result) wordRevealed is true in the bot and false in the web client.    *)
C37_SameMachineButLastNext ==
  frontend = "pair" =>
    \A s \in BotSessions :
      /\ SameCursors(s, app)
      /\ s.stage = "reveal" => s.wordRevealed = app.wordRevealed
      /\ s.stage \in {"voting", "result"} => s.wordRevealed /\ ~app.wordRevealed
      /\ SameTally(s, app)

C37_Witness ==
  /\ frontend = "pair"
  /\ app.stage = "result"
  /\ \E s \in BotSessions :
       /\ s.stage = "result"
       /\ computeResultSummary(s).highestVote = 2
       /\ renderResult(app).highestVote = 2
       /\ s.wordRevealed # app.wordRevealed


StillDrawing ==
  /\ loop.running
  /\ 2 * Cardinality(loop.imposterIndices) < LoopSession.imposterCount.half

DrawOf(i) ==
  /\ \/ WebDrawImposter
     \/ \E chatId \in Chats : DrawImposter(chatId)
  /\ loop'.imposterIndices = loop.imposterIndices \cup {i}

AnyIndexDrawable ==
  StillDrawing => \A i \in 0..(Drawable - 1) : ENABLED DrawOf(i)

LoopStartsEmpty ==
  (~loop.running /\ loop'.running) => loop'.imposterIndices = {}

DrawOnlyAdds ==
  (loop.running /\ loop'.running) =>
    \E i \in 0..(Drawable - 1) :
      loop'.imposterIndices = loop.imposterIndices \cup {i}

AssignedFromSet ==
  (loop.running /\ ~loop'.running) =>
    LET after == IF loop.owner = "web" THEN app' ELSE sessions'[loop.owner]
    IN  /\ Imposters(after.assignments) = {i + 1 : i \in loop.imposterIndices}
        /\ \E word \in WORDS :
             after.assignments =
               MakeAssignments(LoopSession.playerNames, loop.imposterIndices, word)

(* C38: the draw is an unrestricted choice of a subset: the loop starts    *)
(* from the empty set, and while it still needs indices every index of     *)
(* [0, n) can be the next one drawn, whatever it already holds, so every   *)
(* set of imposterCount indices is the outcome of some run; the            *)
(* assignments are computed from the set of drawn indices alone (an index  *)
(* drawn again adds nothing, and the set keeps no order): the imposters    *)
(* are exactly the players at the drawn indices.                           *)
C38_AnySubsetDrawn ==
  /\ []AnyIndexDrawable
  /\ [][LoopStartsEmpty /\ DrawOnlyAdds /\ AssignedFromSet]_vars

C38_Witness ==
  /\ frontend = "bot"
  /\ \E s \in BotSessions :
       /\ s.stage = "reveal"
       /\ Len(s.assignments) = MIN_PLAYERS
       /\ Imposters(s.assignments) = {2, 3}


Recast(s, imposterIndices, word) ==
  [s EXCEPT !.selectedWord = word,
            !.assignments =
               MakeAssignments(NamesOf(s.assignments), imposterIndices, word)]

Variants(s) ==
  {Recast(s, imposterIndices, word) :
     imposterIndices \in SUBSET (0..(Len(s.assignments) - 1)), word \in WORDS}

HiddenCard(s) == s.stage = "reveal" /\ ~s.wordRevealed

BotKeepsSecret(s) ==
  s.stage \in Played =>
    \A v \in Variants(s) :
      /\ HiddenCard(s) => buildRevealMessage(v) = buildRevealMessage(s)
      /\ s.stage = "voting" => buildVoteMessage(v) = buildVoteMessage(s)
      /\ \A data \in CallbackData :
           LET out == OnCallback(s, data)
               outOfVariant == OnCallback(v, data)
           IN  /\ outOfVariant.reply = out.reply
               /\ out.reply = "result" <=>
                    (s.stage = "voting" /\ out.session.stage = "result")
               /\ out.reply = "word" <=>
                    (HiddenCard(s) /\ out.session.wordRevealed)
               /\ out.reply \notin {"word", "result"} =>
                    Message(outOfVariant) = Message(out)
      /\ \A text \in Texts :
           /\ OnText(v, text).reply = OnText(s, text).reply
           /\ OnText(s, text).reply \notin {"word", "result"}

WebKeepsSecret(state) ==
  (/\ state.stage \in Played
   /\ state.stage # "result"
   /\ ~(state.stage = "reveal" /\ state.wordRevealed)) =>
    \A v \in Variants(state) : Page(v) = Page(state)

(* C39: the card of the reveal stage while the word is hidden and the      *)
(* ballot of the voting stage are the same for two Sessions that differ    *)
(* only in selectedWord and in which players are imposters, and so is      *)
(* every other message or page but the card of a shown word and the        *)
(* result; the result message, with the imposters and the word, is sent    *)
(* only by the confirm that moves the stage to result, and the web result  *)
(* page is rendered only in stage result.                                  *)
C39_SecretsKeptUntilResult ==
  /\ \A s \in BotSessions : BotKeepsSecret(s)
  /\ WebKeepsSecret(app)

C39_Witness ==
  \E s \in BotSessions :
    /\ s.stage = "voting"
    /\ s.currentVoterIndex = Len(s.assignments) - 1
    /\ Cardinality(Imposters(s.assignments)) = 2
    /\ OnCallback(s, VoteConfirm).reply = "result"
    /\ \E v \in Variants(s) :
         /\ v.selectedWord # s.selectedWord
         /\ Imposters(v.assignments) # Imposters(s.assignments)
         /\ buildVoteMessage(v) = buildVoteMessage(s)
         /\ Message(OnCallback(v, VoteConfirm)) # Message(OnCallback(s, VoteConfirm))
         /\ Contains(Message(OnCallback(s, VoteConfirm)).text, s.selectedWord)

====
